---- MODULE Spec2Model ----
(***************************************************************************)
(* mssql-cr-layer: the connection registry (connect / close) and the       *)
(* transaction manager (transaction, beginTransaction, commit, rollback)   *)
(* of MssqlCrLayer, as a state machine.  The driver (node-mssql) is the     *)
(* environment: its connect, close, begin, commit and rollback requests     *)
(* settle one at a time, and it may abort an active transaction on its own, *)
(* which it announces with the 'rollback' event.                            *)
(*                                                                         *)
(* A promise handler runs as a microtask right after the request it waits   *)
(* for settles, before any other I/O event: the settling of a request and   *)
(* the handlers chained on it are one action.                               *)
(***************************************************************************)
EXTENDS Integers, Sequences, FiniteSets, TLC

\* ------------------------------------------------------------- bounds
MaxCalls == 3       \* connect()/close() calls made on the instance
MaxTx == 1          \* transactions begun on the instance
MaxHandles == 2     \* physical connections the instance may construct
MaxMaps == 2        \* Map objects this.connections may be bound to
MaxInserts == 2     \* statements run on one transaction handle
MaxOps == 2         \* commit()/rollback() calls on one step-by-step handle
MaxStmtLen == 4     \* characters of a statement handed to query()
MaxParams == 2      \* elements of a params array or keys of a params object
MaxCols == 2        \* columns of a row the driver returns
MaxElems == 2       \* values the driver gives under one column name

Calls == 1..MaxCalls                          \* each slot is one call
Txs == (MaxCalls + 1)..(MaxCalls + MaxTx)     \* each is one transaction handle
QueryCall == MaxCalls + MaxTx + 1             \* the query() call
Procs == Calls \cup Txs \cup {QueryCall}
Handles == 1..MaxHandles
MapIds == 1..MaxMaps
NoMap == 0          \* this.connections is undefined or null
NoHandle == 0

\* The failures the driver and the work callback raise, by where they arise,
\* and the values the work callback resolves with.
ConnectErrors == {"eConnect"}
CloseErrors == {"eClose"}
BeginErrors == {"eBegin"}
WorkErrors == {"eWork"}
CommitErrors == {"eCommit"}
RollbackErrors == {"eRollback"}
PrepareErrors == {"ePrepare"}
ExecuteErrors == {"eExecute"}
UnprepareErrors == {"eUnprepare"}
Results == {"r1", "r2"}

\* ------------------------------------------------------------- configs
\* A config is a record; "" (0 for the port) is an absent or falsy field.
DefaultPort == 1433
Digits == <<"0", "1", "2", "3", "4", "5", "6", "7", "8", "9">>

RECURSIVE NumToStr(_)
NumToStr(n) ==
  IF n < 10 THEN Digits[n + 1] ELSE NumToStr(n \div 10) \o Digits[(n % 10) + 1]

OrStr(a, b) == IF a # "" THEN a ELSE b
OrNum(a, b) == IF a # 0 THEN a ELSE b

NoConfig == [user |-> "", database |-> "", password |-> "", port |-> 0, server |-> ""]

\* toMssqlConfig(config, defaultConfig): config.host is read as the server.
toMssqlConfig(config, defaultConfig) ==
  [user |-> OrStr(config.user, defaultConfig.user),
   database |-> OrStr(config.database, defaultConfig.database),
   password |-> OrStr(config.password, defaultConfig.password),
   port |-> OrNum(OrNum(config.port, defaultConfig.port), DefaultPort),
   server |-> OrStr(OrStr(config.host, defaultConfig.server), "localhost")]

\* The config the instance was constructed with, and the overrides a caller
\* may hand to connect().
CtorConfig == [user |-> "sa", database |-> "db1", password |-> "pw1", port |-> 0, host |-> ""]
NoOverride == [user |-> "", database |-> "", password |-> "", port |-> 0, host |-> ""]
Overrides ==
  {NoOverride,
   [NoOverride EXCEPT !.password = "pw2"],
   [NoOverride EXCEPT !.database = "db2"]}

\* Overrides that name another database and another user than the instance
\* was constructed with.
KeyOverrides ==
  {NoOverride,
   [NoOverride EXCEPT !.database = "db", !.user = "1sa"],
   [NoOverride EXCEPT !.database = "db2"]}

\* connectionParams.get(this)
connectionParams == toMssqlConfig(CtorConfig, NoConfig)

getConnectionKey(config) ==
  config.server \o NumToStr(config.port) \o config.database \o config.user

\* ------------------------------------------------------------- state
VARIABLES
  connections,  \* this.connections: NoMap, or the Map it is bound to
  maps,         \* the Map objects: each a sequence of entries in insertion order
  nMaps,        \* Map objects constructed so far
  phys,         \* physical connections: [st, closed]
  nHandles,     \* physical connections constructed so far
  pc,           \* per client: where its current call stands
  op,           \* per client: the call it is making
  loc,          \* per client: the locals of its connect()
  result,       \* per client: how its last call settled
  closing,      \* per client: the connections its close() has still to close
  mode,         \* per transaction: "none", "scoped" (transaction) or "step" (beginTransaction)
  isolationLevel, \* per transaction: the isolation level name and what begin() is passed
  rolledBack,   \* per transaction: the flag the 'rollback' listener sets
  drv,          \* per transaction: the driver's state of it
  fired,        \* per transaction: the driver has emitted 'rollback' (history)
  err,          \* per transaction: the failure its current call caught
  flagSeen,     \* per transaction: the flag as the current call's catch or rollback() read it
  nCommit,      \* per transaction: driver commits the current call issued
  nRollback,    \* per transaction: driver rollbacks the current call issued
  nOps,         \* per transaction: commit()/rollback() calls made on the handle
  workDone,     \* per transaction: how the work callback settled
  uncommitted,  \* per transaction: rows the driver holds uncommitted
  inserted,     \* per transaction: rows statements inserted through the handle (history)
  table,        \* the committed rows
  given,        \* query(): the statement and the params its caller passed
  options,      \* query(), batch(): the options its caller passed
  statement,    \* query(): the variable statement, which convertParams rewrites
  paramsObj,    \* query(): the object of parameters once convertParams is through
  input,        \* query(): the object input, handed to ps.execute
  ps,           \* query(): the prepared statement, as the layer has driven it
  request       \* query(), batch(): the plain request, as the layer has driven it

connVars == <<connections, maps, nMaps, phys, nHandles>>
callVars == <<pc, op, loc, result, closing>>
txVars == <<mode, isolationLevel, rolledBack, drv, fired, err, flagSeen, nCommit, nRollback, nOps,
            workDone, uncommitted, inserted, table>>
queryVars == <<given, options, statement, paramsObj, input, ps, request>>
vars == <<connections, maps, nMaps, phys, nHandles, pc, op, loc, result, closing,
          mode, isolationLevel, rolledBack, drv, fired, err, flagSeen, nCommit, nRollback,
          nOps, workDone, uncommitted, inserted, table,
          given, options, statement, paramsObj, input, ps, request>>

Pending == [st |-> "pending", val |-> "none"]
Resolved(v) == [st |-> "resolved", val |-> v]
Rejected(e) == [st |-> "rejected", val |-> e]

\* What a request or a prepared statement is constructed on: a pooled
\* connection or a transaction.
NoObj == [kind |-> "none", id |-> 0]
ConnectionObj(h) == [kind |-> "connection", id |-> h]
TransactionObj(t) == [kind |-> "transaction", id |-> t]

\* A prepared statement nothing has been done with.
NoPs == [connection |-> NoObj, declared |-> <<>>, types |-> <<>>, prepared |-> <<>>,
         executed |-> <<>>, unprepared |-> 0, outcome |-> Pending]

\* A request nothing has been sent with.
NoRequest == [sent |-> <<>>, outcome |-> Pending]

\* No options, or options without a transaction.
NoTx == 0
NoOptions == [transaction |-> NoTx]

\* this.ISOLATION_LEVEL of an instance constructed without one, the names
\* mssql.ISOLATION_LEVEL has, and the lookup mssql.ISOLATION_LEVEL[name].
ISOLATION_LEVEL == "READ_COMMITTED"
IsolationLevels == {"READ_COMMITTED", "SNAPSHOT"}
mssqlISOLATION_LEVEL(name) == IF name \in IsolationLevels THEN name ELSE "undefined"

\* The names a caller may pass as options.ISOLATION_LEVEL.
IsolationNames == {"SNAPSHOT", "NO_SUCH_LEVEL"}

NoIsolation == [name |-> "", level |-> "none"]

NoLoc ==
  [map |-> NoMap, key |-> "", config |-> NoConfig, password |-> "", connection |-> NoHandle,
   path |-> "none"]

\* ------------------------------------------------------------- Map
MapIndex(m, key) ==
  IF \E i \in 1..Len(m) : m[i].key = key
  THEN CHOOSE i \in 1..Len(m) : m[i].key = key
  ELSE 0

MapHas(m, key) == MapIndex(m, key) # 0
MapGet(m, key) == m[MapIndex(m, key)]

\* A set that adds an entry whatever the Map holds.
MapSetAppends(m, key, password, connection) ==
  Append(m, [key |-> key, password |-> password, connection |-> connection])

\* A set that leaves the entry a key already has.
MapSetKeeps(m, key, password, connection) ==
  IF MapHas(m, key)
  THEN m
  ELSE Append(m, [key |-> key, password |-> password, connection |-> connection])

\* Map.prototype.set: a key already present keeps its place.
MapSet(m, key, password, connection) ==
  LET e == [key |-> key, password |-> password, connection |-> connection]
  IN IF MapHas(m, key) THEN [m EXCEPT ![MapIndex(m, key)] = e] ELSE Append(m, e)

\* A registry that outlives close(): the Map bound last, dropped or not.
RegistryKept == IF nMaps = 0 THEN <<>> ELSE maps[nMaps]

\* The registry a caller sees now.
Registry == IF connections = NoMap THEN <<>> ELSE maps[connections]

Init ==
  /\ connections = NoMap
  /\ maps = [m \in MapIds |-> <<>>]
  /\ nMaps = 0
  /\ phys = [h \in Handles |-> [st |-> "free", closed |-> FALSE]]
  /\ nHandles = 0
  /\ pc = [c \in Procs |-> "idle"]
  /\ op = [c \in Procs |-> "none"]
  /\ loc = [c \in Procs |-> NoLoc]
  /\ result = [c \in Procs |-> Pending]
  /\ closing = [c \in Procs |-> <<>>]
  /\ mode = [t \in Txs |-> "none"]
  /\ isolationLevel = [t \in Txs |-> NoIsolation]
  /\ rolledBack = [t \in Txs |-> FALSE]
  /\ drv = [t \in Txs |-> "new"]
  /\ fired = [t \in Txs |-> FALSE]
  /\ err = [t \in Txs |-> "none"]
  /\ flagSeen = [t \in Txs |-> "none"]
  /\ nCommit = [t \in Txs |-> 0]
  /\ nRollback = [t \in Txs |-> 0]
  /\ nOps = [t \in Txs |-> 0]
  /\ workDone = [t \in Txs |-> Pending]
  /\ uncommitted = [t \in Txs |-> {}]
  /\ inserted = [t \in Txs |-> {}]
  /\ table = {}
  /\ given = [statement |-> "", form |-> "undefined", params |-> <<>>]
  /\ options = NoOptions
  /\ statement = ""
  /\ paramsObj = <<>>
  /\ input = <<>>
  /\ ps = NoPs
  /\ request = NoRequest

\* ------------------------------------------------------------- connect
ConfigOf(o) == toMssqlConfig(o, connectionParams)

\* A connect() that never takes the stored connection.
SamePasswordNever(config, entry) == FALSE

\* config.password === connection.config.password
SamePassword(config, entry) == config.password = entry.password

\* connect() finds an entry under its key and the passwords agree.
Reuses(o) ==
  LET key == getConnectionKey(ConfigOf(o))
  IN MapHas(Registry, key) /\ SamePassword(ConfigOf(o), MapGet(Registry, key))

\* connect() finds an entry under its key and the passwords differ.
Replaces(o) ==
  LET key == getConnectionKey(ConfigOf(o))
  IN MapHas(Registry, key) /\ ~SamePassword(ConfigOf(o), MapGet(Registry, key))

\* connect(config), up to the promise it returns: the existing connection
\* (path "reuse"), or a new one whose connect() is now in flight, the stale
\* one having been told to close (path "replace") if there was one.
connect(c, o) ==
  LET config == ConfigOf(o)
      key == getConnectionKey(config)
      m == IF connections = NoMap THEN nMaps + 1 ELSE connections
      h == nHandles + 1
  IN /\ connections = NoMap => nMaps < MaxMaps
     /\ connections' = m
     /\ nMaps' = IF connections = NoMap THEN nMaps + 1 ELSE nMaps
     /\ UNCHANGED maps
     /\ IF Reuses(o)
        THEN /\ loc' = [loc EXCEPT ![c] =
                    [map |-> m, key |-> key, config |-> config, password |-> config.password,
                     connection |-> MapGet(Registry, key).connection, path |-> "reuse"]]
             /\ UNCHANGED <<phys, nHandles>>
        ELSE /\ nHandles < MaxHandles
             /\ nHandles' = h
             /\ phys' = [x \in Handles |->
                    IF x = h THEN [st |-> "connecting", closed |-> FALSE]
                    ELSE IF Replaces(o) /\ x = MapGet(Registry, key).connection
                         THEN [phys[x] EXCEPT !.closed = TRUE]
                         ELSE phys[x]]
             /\ loc' = [loc EXCEPT ![c] =
                    [map |-> m, key |-> key, config |-> config, password |-> config.password,
                     connection |-> h,
                     path |-> IF Replaces(o) THEN "replace" ELSE "create"]]

\* The Map the new connection is registered in: the one connect() read.
RegisterIn(c) == loc[c].map

\* connection.connect() resolved: connections.set(getConnectionKey(), connection)
registerConnection(c) ==
  /\ maps' = [maps EXCEPT ![RegisterIn(c)] =
                MapSet(@, loc[c].key, loc[c].password, loc[c].connection)]
  /\ phys' = [phys EXCEPT ![loc[c].connection].st = "connected"]
  /\ UNCHANGED <<connections, nMaps, nHandles>>

\* A then-handler that runs although connection.connect() rejected.
connectFailedRegisters(c) ==
  /\ maps' = [maps EXCEPT ![RegisterIn(c)] =
                MapSet(@, loc[c].key, loc[c].password, loc[c].connection)]
  /\ phys' = [phys EXCEPT ![loc[c].connection].st = "failed"]
  /\ UNCHANGED <<connections, nMaps, nHandles>>

\* connection.connect() rejected: nothing is registered.
connectFailed(c) ==
  /\ phys' = [phys EXCEPT ![loc[c].connection].st = "failed"]
  /\ UNCHANGED <<connections, maps, nMaps, nHandles>>

\* layer.connect(config)
Connect(c, o) ==
  /\ pc[c] = "idle"
  /\ connect(c, o)
  /\ op' = [op EXCEPT ![c] = "connect"]
  /\ IF Reuses(o)
     THEN /\ result' = [result EXCEPT ![c] =
                 Resolved(MapGet(Registry, getConnectionKey(ConfigOf(o))).connection)]
          /\ pc' = [pc EXCEPT ![c] = "done"]
     ELSE /\ result' = [result EXCEPT ![c] = Pending]
          /\ pc' = [pc EXCEPT ![c] = "connecting"]
  /\ UNCHANGED <<closing, txVars>>
  /\ UNCHANGED queryVars

ConnectOk(c) ==
  /\ pc[c] = "connecting"
  /\ op[c] = "connect"
  /\ registerConnection(c)
  /\ result' = [result EXCEPT ![c] = Resolved(loc[c].connection)]
  /\ pc' = [pc EXCEPT ![c] = "done"]
  /\ UNCHANGED <<op, loc, closing, txVars>>
  /\ UNCHANGED queryVars

ConnectFail(c, e) ==
  /\ pc[c] = "connecting"
  /\ op[c] = "connect"
  /\ connectFailed(c)
  /\ result' = [result EXCEPT ![c] = Rejected(e)]
  /\ pc' = [pc EXCEPT ![c] = "done"]
  /\ UNCHANGED <<op, loc, closing, txVars>>
  /\ UNCHANGED queryVars

\* ------------------------------------------------------------- close
\* The connections of the registry, last registered first.
RegisteredHandlesReversed ==
  [i \in 1..Len(Registry) |-> Registry[Len(Registry) + 1 - i].connection]

\* The connections of the registry, in the Map's order.
RegisteredHandles == [i \in 1..Len(Registry) |-> Registry[i].connection]

closeInvoked(h) == [phys EXCEPT ![h].closed = TRUE]

\* layer.close(): the chain of closes is built from the registry as it is
\* now, the registry is dropped, and the first close is invoked.
Close(c) ==
  /\ pc[c] = "idle"
  /\ op' = [op EXCEPT ![c] = "close"]
  /\ connections' = NoMap
  /\ IF RegisteredHandles = <<>>
     THEN /\ result' = [result EXCEPT ![c] = Resolved(NoHandle)]
          /\ pc' = [pc EXCEPT ![c] = "done"]
          /\ UNCHANGED <<closing, phys>>
     ELSE /\ result' = [result EXCEPT ![c] = Pending]
          /\ pc' = [pc EXCEPT ![c] = "closing"]
          /\ closing' = [closing EXCEPT ![c] = RegisteredHandles]
          /\ phys' = closeInvoked(Head(RegisteredHandles))
  /\ UNCHANGED <<maps, nMaps, nHandles, loc, txVars>>
  /\ UNCHANGED queryVars

\* The close in flight resolved: the next one is invoked, or close() resolves.
CloseOk(c) ==
  /\ pc[c] = "closing"
  /\ closing' = [closing EXCEPT ![c] = Tail(@)]
  /\ IF Tail(closing[c]) = <<>>
     THEN /\ result' = [result EXCEPT ![c] = Resolved(NoHandle)]
          /\ pc' = [pc EXCEPT ![c] = "done"]
          /\ UNCHANGED phys
     ELSE /\ phys' = closeInvoked(Head(Tail(closing[c])))
          /\ UNCHANGED <<pc, result>>
  /\ UNCHANGED <<connections, maps, nMaps, nHandles, op, loc, txVars>>
  /\ UNCHANGED queryVars

\* A chain that goes on to the next connection after a failed close.
CloseFailClosesNext(c, e) ==
  /\ pc[c] = "closing"
  /\ closing' = [closing EXCEPT ![c] = <<>>]
  /\ result' = [result EXCEPT ![c] = Rejected(e)]
  /\ pc' = [pc EXCEPT ![c] = "done"]
  /\ phys' = IF Tail(closing[c]) = <<>> THEN phys ELSE closeInvoked(Head(Tail(closing[c])))
  /\ UNCHANGED <<connections, maps, nMaps, nHandles, op, loc, txVars>>
  /\ UNCHANGED queryVars

\* The close in flight rejected: the rest of the chain is skipped.
CloseFail(c, e) ==
  /\ pc[c] = "closing"
  /\ closing' = [closing EXCEPT ![c] = <<>>]
  /\ result' = [result EXCEPT ![c] = Rejected(e)]
  /\ pc' = [pc EXCEPT ![c] = "done"]
  /\ UNCHANGED <<connVars, op, loc, txVars>>
  /\ UNCHANGED queryVars

\* ------------------------------------------------------------- transactions
\* A handle whose flag is set from the start.
beginIssuedFlagged(t) ==
  /\ rolledBack' = [rolledBack EXCEPT ![t] = TRUE]
  /\ pc' = [pc EXCEPT ![t] = "beginning"]

\* new mssql.Transaction(connection); the flag is false; the 'rollback'
\* listener is attached; transaction.begin(...) is issued.
beginIssued(t) ==
  /\ rolledBack' = [rolledBack EXCEPT ![t] = FALSE]
  /\ pc' = [pc EXCEPT ![t] = "beginning"]

\* Where a transaction stands once a call on it has settled: transaction()
\* is over; a handle from beginTransaction() is back with its caller.
Settled(t) == IF mode[t] = "step" THEN "ready" ELSE "done"

\* A listener that leaves the flag as it is.
onRollbackLost(t) == rolledBack

\* transaction.on('rollback', ...): what the listener does to the flag.
onRollback(t) == [rolledBack EXCEPT ![t] = TRUE]

\* A catch handler that rolls back whatever the flag says.
IssuesRollbackAlways(t) == TRUE

\* if (!rolledBack) ...: whether the catch handler issues transaction.rollback()
IssuesRollback(t) == ~rolledBack[t]

\* What the call rejects with once the rollback its catch handler issued
\* has resolved: .then(function() { throw err })
AfterRollback(t) == Rejected(err[t])

\* What the call rejects with when that rollback itself rejects with e: the
\* .then above has no rejection handler, so e passes through.
AfterRollbackFailed(t, e) == Rejected(e)

\* A catch handler that commits what the failed work left behind.
catchHandlerCommits(t, e) ==
  /\ err' = [err EXCEPT ![t] = e]
  /\ flagSeen' = [flagSeen EXCEPT ![t] = IF rolledBack[t] THEN "true" ELSE "false"]
  /\ pc' = [pc EXCEPT ![t] = "committing"]
  /\ UNCHANGED <<result, nRollback>>

\* .catch(function(err) {...}) of transaction() and of commit(): roll back
\* unless the flag says the transaction is rolled back already, then rethrow.
catchHandler(t, e) ==
  /\ err' = [err EXCEPT ![t] = e]
  /\ flagSeen' = [flagSeen EXCEPT ![t] = IF rolledBack[t] THEN "true" ELSE "false"]
  /\ IF IssuesRollback(t)
     THEN /\ nRollback' = [nRollback EXCEPT ![t] = @ + 1]
          /\ pc' = [pc EXCEPT ![t] = "rollingback"]
          /\ UNCHANGED result
     ELSE /\ result' = [result EXCEPT ![t] = Rejected(e)]
          /\ pc' = [pc EXCEPT ![t] = Settled(t)]
          /\ UNCHANGED nRollback

\* const isolationLevel = options.ISOLATION_LEVEL || this.ISOLATION_LEVEL,
\* and what transaction.begin() will be passed for it.
isolationLevelOf(name) ==
  LET isolation == OrStr(name, ISOLATION_LEVEL)
  IN [name |-> isolation, level |-> mssqlISOLATION_LEVEL(isolation)]

\* transaction() and beginTransaction() up to the begin: the isolation
\* level is read from the options, then connect, then begin.
transactionEntered(t, name, called, as) ==
  /\ isolationLevel' = [isolationLevel EXCEPT ![t] = isolationLevelOf(name)]
  /\ connect(t, NoOverride)
  /\ op' = [op EXCEPT ![t] = called]
  /\ mode' = [mode EXCEPT ![t] = as]
  /\ IF Reuses(NoOverride)
     THEN beginIssued(t)
     ELSE /\ pc' = [pc EXCEPT ![t] = "connecting"]
          /\ UNCHANGED rolledBack
  /\ UNCHANGED <<result, closing, drv, fired, err, flagSeen, nCommit, nRollback, nOps,
                 workDone, uncommitted, inserted, table>>
  /\ UNCHANGED queryVars

\* layer.transaction(fn): connect, then begin.
Transaction(t) ==
  /\ pc[t] = "idle"
  /\ transactionEntered(t, "", "transaction", "scoped")

\* layer.beginTransaction(): connect, then begin.
BeginTransaction(t) ==
  /\ pc[t] = "idle"
  /\ transactionEntered(t, "", "beginTransaction", "step")

\* layer.transaction(fn, {ISOLATION_LEVEL: name})
TransactionIn(t) ==
  /\ pc[t] = "idle"
  /\ \E name \in IsolationNames : transactionEntered(t, name, "transaction", "scoped")

\* layer.beginTransaction({ISOLATION_LEVEL: name})
BeginTransactionIn(t) ==
  /\ pc[t] = "idle"
  /\ \E name \in IsolationNames : transactionEntered(t, name, "beginTransaction", "step")

\* The connect of transaction()/beginTransaction() resolved.
TxConnectOk(t) ==
  /\ pc[t] = "connecting"
  /\ registerConnection(t)
  /\ beginIssued(t)
  /\ UNCHANGED <<op, loc, result, closing, mode, isolationLevel, drv, fired, err, flagSeen, nCommit,
                 nRollback, nOps, workDone, uncommitted, inserted, table>>
  /\ UNCHANGED queryVars

\* The connect of transaction()/beginTransaction() rejected.
TxConnectFail(t, e) ==
  /\ pc[t] = "connecting"
  /\ connectFailed(t)
  /\ result' = [result EXCEPT ![t] = Rejected(e)]
  /\ pc' = [pc EXCEPT ![t] = "done"]
  /\ UNCHANGED <<op, loc, closing, txVars>>
  /\ UNCHANGED queryVars

\* begin resolved: transaction() invokes fn(transaction); beginTransaction()
\* resolves with the handle.
BeginOk(t) ==
  /\ pc[t] = "beginning"
  /\ drv' = [drv EXCEPT ![t] = "active"]
  /\ IF mode[t] = "scoped"
     THEN /\ pc' = [pc EXCEPT ![t] = "working"]
          /\ UNCHANGED result
     ELSE /\ pc' = [pc EXCEPT ![t] = "ready"]
          /\ result' = [result EXCEPT ![t] = Resolved("handle")]
  /\ UNCHANGED <<connVars, op, loc, closing, mode, isolationLevel, rolledBack, fired, err, flagSeen,
                 nCommit, nRollback, nOps, workDone, uncommitted, inserted, table>>
  /\ UNCHANGED queryVars

\* begin rejected: beginTransaction() rejects; in transaction() the failure
\* reaches the catch handler at the end of the chain.
BeginFail(t, e) ==
  /\ pc[t] = "beginning"
  /\ IF mode[t] = "scoped"
     THEN catchHandler(t, e)
     ELSE /\ result' = [result EXCEPT ![t] = Rejected(e)]
          /\ pc' = [pc EXCEPT ![t] = "done"]
          /\ UNCHANGED <<err, flagSeen, nRollback>>
  /\ UNCHANGED <<connVars, op, loc, closing, mode, isolationLevel, rolledBack, drv, fired, nCommit,
                 nOps, workDone, uncommitted, inserted, table>>
  /\ UNCHANGED queryVars

\* A statement run with options.transaction = handle inserts one row.
Insert(t) ==
  /\ pc[t] \in {"working", "ready"}
  /\ drv[t] = "active"
  /\ Cardinality(inserted[t]) < MaxInserts
  /\ LET row == <<t, Cardinality(inserted[t]) + 1>>
     IN /\ uncommitted' = [uncommitted EXCEPT ![t] = @ \cup {row}]
        /\ inserted' = [inserted EXCEPT ![t] = @ \cup {row}]
  /\ UNCHANGED <<connVars, callVars, mode, isolationLevel, rolledBack, drv, fired, err, flagSeen,
                 nCommit, nRollback, nOps, workDone, table>>
  /\ UNCHANGED queryVars

\* transaction.commit() is issued.
commitIssued(t) ==
  /\ nCommit' = [nCommit EXCEPT ![t] = @ + 1]
  /\ pc' = [pc EXCEPT ![t] = "committing"]

\* fn's promise resolved with r: commit.
WorkResolve(t, r) ==
  /\ pc[t] = "working"
  /\ workDone' = [workDone EXCEPT ![t] = Resolved(r)]
  /\ commitIssued(t)
  /\ UNCHANGED <<connVars, op, loc, result, closing, mode, isolationLevel, rolledBack, drv, fired, err,
                 flagSeen, nRollback, nOps, uncommitted, inserted, table>>
  /\ UNCHANGED queryVars

\* A chain that commits after a failed fn.
WorkRejectCommits(t, e) ==
  /\ pc[t] = "working"
  /\ workDone' = [workDone EXCEPT ![t] = Rejected(e)]
  /\ commitIssued(t)
  /\ UNCHANGED <<connVars, op, loc, result, closing, mode, isolationLevel, rolledBack, drv, fired, err,
                 flagSeen, nRollback, nOps, uncommitted, inserted, table>>
  /\ UNCHANGED queryVars

\* fn's promise rejected with e: the catch handler.
WorkReject(t, e) ==
  /\ pc[t] = "working"
  /\ workDone' = [workDone EXCEPT ![t] = Rejected(e)]
  /\ catchHandler(t, e)
  /\ UNCHANGED <<connVars, op, loc, closing, mode, isolationLevel, rolledBack, drv, fired, nCommit,
                 nOps, uncommitted, inserted, table>>
  /\ UNCHANGED queryVars

\* A commit handler that forgets to return res.
CommitResultDropped(t) == Resolved("undefined")

\* What transaction() resolves with after the commit: return res
CommitResult(t) == Resolved(workDone[t].val)

\* The driver commits: the transaction's rows are in the table.
CommitOk(t) ==
  /\ pc[t] = "committing"
  /\ drv[t] = "active"
  /\ drv' = [drv EXCEPT ![t] = "committed"]
  /\ table' = table \cup uncommitted[t]
  /\ uncommitted' = [uncommitted EXCEPT ![t] = {}]
  /\ IF mode[t] = "scoped"
     THEN /\ result' = [result EXCEPT ![t] = CommitResult(t)]
          /\ pc' = [pc EXCEPT ![t] = "done"]
     ELSE /\ result' = [result EXCEPT ![t] = Resolved("undefined")]
          /\ pc' = [pc EXCEPT ![t] = "ready"]
  /\ UNCHANGED <<connVars, op, loc, closing, mode, isolationLevel, rolledBack, fired, err, flagSeen,
                 nCommit, nRollback, nOps, workDone, inserted>>
  /\ UNCHANGED queryVars

\* The driver's commit fails: the catch handler of transaction()/commit().
CommitFail(t, e) ==
  /\ pc[t] = "committing"
  /\ catchHandler(t, e)
  /\ UNCHANGED <<connVars, op, loc, closing, mode, isolationLevel, rolledBack, drv, fired, nCommit,
                 nOps, workDone, uncommitted, inserted, table>>
  /\ UNCHANGED queryVars

\* The driver rolls back: it emits 'rollback', then the request resolves.
RollbackOk(t) ==
  /\ pc[t] = "rollingback"
  /\ drv[t] = "active"
  /\ drv' = [drv EXCEPT ![t] = "rolledback"]
  /\ uncommitted' = [uncommitted EXCEPT ![t] = {}]
  /\ fired' = [fired EXCEPT ![t] = TRUE]
  /\ rolledBack' = onRollback(t)
  /\ result' = [result EXCEPT ![t] =
        IF op[t] = "rollback" THEN Resolved("undefined") ELSE AfterRollback(t)]
  /\ pc' = [pc EXCEPT ![t] = Settled(t)]
  /\ UNCHANGED <<connVars, op, loc, closing, mode, isolationLevel, err, flagSeen, nCommit, nRollback,
                 nOps, workDone, inserted, table>>
  /\ UNCHANGED queryVars

\* The driver's rollback fails (always so when the transaction is not active).
RollbackFail(t, e) ==
  /\ pc[t] = "rollingback"
  /\ result' = [result EXCEPT ![t] =
        IF op[t] = "rollback" THEN Rejected(e) ELSE AfterRollbackFailed(t, e)]
  /\ pc' = [pc EXCEPT ![t] = Settled(t)]
  /\ UNCHANGED <<connVars, op, loc, closing, txVars>>
  /\ UNCHANGED queryVars

\* The driver rolls the active transaction back on its own (a server error,
\* a deadlock) and emits 'rollback'.
Abort(t) ==
  /\ pc[t] \in {"working", "committing", "rollingback", "ready"}
  /\ drv[t] = "active"
  /\ drv' = [drv EXCEPT ![t] = "aborted"]
  /\ uncommitted' = [uncommitted EXCEPT ![t] = {}]
  /\ fired' = [fired EXCEPT ![t] = TRUE]
  /\ rolledBack' = onRollback(t)
  /\ UNCHANGED <<connVars, callVars, mode, isolationLevel, err, flagSeen, nCommit, nRollback, nOps,
                 workDone, inserted, table>>
  /\ UNCHANGED queryVars

\* layer.commit(transaction)
Commit(t) ==
  /\ pc[t] = "ready"
  /\ nOps[t] < MaxOps
  /\ nOps' = [nOps EXCEPT ![t] = @ + 1]
  /\ op' = [op EXCEPT ![t] = "commit"]
  /\ result' = [result EXCEPT ![t] = Pending]
  /\ err' = [err EXCEPT ![t] = "none"]
  /\ flagSeen' = [flagSeen EXCEPT ![t] = "none"]
  /\ nCommit' = [nCommit EXCEPT ![t] = 1]
  /\ nRollback' = [nRollback EXCEPT ![t] = 0]
  /\ pc' = [pc EXCEPT ![t] = "committing"]
  /\ UNCHANGED <<connVars, loc, closing, mode, isolationLevel, rolledBack, drv, fired, workDone,
                 uncommitted, inserted, table>>
  /\ UNCHANGED queryVars

\* A rollback() that does not look at the flag.
SkipsRollbackNever(t) == FALSE

\* rolledBack.get(transaction): whether rollback() resolves at once
SkipsRollback(t) == rolledBack[t]

\* layer.rollback(transaction)
Rollback(t) ==
  /\ pc[t] = "ready"
  /\ nOps[t] < MaxOps
  /\ nOps' = [nOps EXCEPT ![t] = @ + 1]
  /\ op' = [op EXCEPT ![t] = "rollback"]
  /\ err' = [err EXCEPT ![t] = "none"]
  /\ flagSeen' = [flagSeen EXCEPT ![t] = IF rolledBack[t] THEN "true" ELSE "false"]
  /\ nCommit' = [nCommit EXCEPT ![t] = 0]
  /\ IF SkipsRollback(t)
     THEN /\ result' = [result EXCEPT ![t] = Resolved("undefined")]
          /\ nRollback' = [nRollback EXCEPT ![t] = 0]
          /\ UNCHANGED pc
     ELSE /\ result' = [result EXCEPT ![t] = Pending]
          /\ nRollback' = [nRollback EXCEPT ![t] = 1]
          /\ pc' = [pc EXCEPT ![t] = "rollingback"]
  /\ UNCHANGED <<connVars, loc, closing, mode, isolationLevel, rolledBack, drv, fired, workDone,
                 uncommitted, inserted, table>>
  /\ UNCHANGED queryVars

Next ==
  \/ \E t \in Txs : Transaction(t)
  \/ \E t \in Txs : BeginTransaction(t)
  \/ \E t \in Txs : TxConnectOk(t)
  \/ \E t \in Txs, e \in ConnectErrors : TxConnectFail(t, e)
  \/ \E t \in Txs : BeginOk(t)
  \/ \E t \in Txs, e \in BeginErrors : BeginFail(t, e)
  \/ \E t \in Txs : Insert(t)
  \/ \E t \in Txs, r \in Results : WorkResolve(t, r)
  \/ \E t \in Txs, e \in WorkErrors : WorkReject(t, e)
  \/ \E t \in Txs : CommitOk(t)
  \/ \E t \in Txs, e \in CommitErrors : CommitFail(t, e)
  \/ \E t \in Txs : RollbackOk(t)
  \/ \E t \in Txs, e \in RollbackErrors : RollbackFail(t, e)
  \/ \E t \in Txs : Abort(t)
  \/ \E t \in Txs : Commit(t)
  \/ \E t \in Txs : Rollback(t)

Spec == Init /\ [][Next]_vars

NextConn ==
  \/ \E c \in Calls, o \in Overrides : Connect(c, o)
  \/ \E c \in Calls : ConnectOk(c)
  \/ \E c \in Calls, e \in ConnectErrors : ConnectFail(c, e)
  \/ \E c \in Calls : Close(c)
  \/ \E c \in Calls : CloseOk(c)
  \/ \E c \in Calls, e \in CloseErrors : CloseFail(c, e)

SpecConn == Init /\ [][NextConn]_vars

\* connect() with configs of several servers, databases and users.
NextKey ==
  \/ \E c \in Calls, o \in KeyOverrides : Connect(c, o)
  \/ \E c \in Calls : ConnectOk(c)
  \/ \E c \in Calls, e \in ConnectErrors : ConnectFail(c, e)
  \/ \E c \in Calls : Close(c)
  \/ \E c \in Calls : CloseOk(c)
  \/ \E c \in Calls, e \in CloseErrors : CloseFail(c, e)

SpecKey == Init /\ [][NextKey]_vars

\* ------------------------------------------------------------- query
\* Statements are strings over a small alphabet: the placeholder sign, two
\* digits, a letter and a blank.  The digits and the letter are the \w
\* characters among them.
Alphabet == {"$", "1", "2", "a", " "}
WordChars == {"1", "2", "a"}
DigitChars == {"1", "2"}

\* JavaScript values.  A primitive is its typeof tag and its string form;
\* a Date instance is its toISOString(); null and undefined are values of
\* their own.
Undefined == [js |-> "undefined", v |-> ""]
Null == [js |-> "null", v |-> ""]
Str(s) == [js |-> "string", v |-> s]
Num(s) == [js |-> "number", v |-> s]
Bool(s) == [js |-> "boolean", v |-> s]
DateOf(iso) == [js |-> "date", v |-> iso]
ArrayOf(elems) == [js |-> "array", elems |-> elems]

\* A parameter descriptor {value, type, maxLength, decimals, timezone}: a
\* property that is not there is undefined, the empty string or zero.
Descriptor(value, type, maxLength, decimals, timezone) ==
  [js |-> "object", value |-> value, type |-> type, maxLength |-> maxLength,
   decimals |-> decimals, timezone |-> timezone]

Values == {Str("Duck"), Str("Corn")}

RECURSIVE Strings(_)
Strings(n) ==
  IF n = 0 THEN {""}
  ELSE LET shorter == Strings(n - 1)
       IN shorter \cup {s \o ch : s \in {x \in shorter : Len(x) = n - 1}, ch \in Alphabet}

Statements == Strings(MaxStmtLen)
Arrays == UNION {[1..n -> Values] : n \in 0..MaxParams}

charAt(s, i) == SubSeq(s, i, i)

\* The length of the run of \w characters that starts at position i.
RECURSIVE WordRun(_, _)
WordRun(s, i) ==
  IF i <= Len(s) /\ charAt(s, i) \in WordChars THEN 1 + WordRun(s, i + 1) ELSE 0

\* statement.match(/(\$\w*\b)/g), from position i on: a "$" matches with the
\* whole run of \w characters after it, and not at all if there is none (no
\* word boundary follows the "$"); the search goes on after each match.
RECURSIVE matchFrom(_, _)
matchFrom(s, i) ==
  IF i > Len(s) THEN <<>>
  ELSE LET n == WordRun(s, i + 1)
       IN IF charAt(s, i) = "$" /\ n > 0
          THEN <<SubSeq(s, i, i + n)>> \o matchFrom(s, i + n + 1)
          ELSE matchFrom(s, i + 1)

\* The matches of the statement, in order, repeated ones included; none at
\* all stands for the null that match() returns.
match(s) == matchFrom(s, 1)

\* A check that lets every array through.
arityOkAlways(s, params) == TRUE

\* ((match && match.length) || 0) <= Object.keys(params).length
arityOk(s, params) == Len(match(s)) <= Len(params)

\* 'There are more ' + 'parameters in statement than in object params'
ArityMessage == "There are more " \o "parameters in statement than in object params"

\* s.indexOf(pat), counted from 1; 0 if pat does not occur.
indexOf(s, pat) ==
  LET at == {i \in 1..(Len(s) - Len(pat) + 1) : SubSeq(s, i, i + Len(pat) - 1) = pat}
  IN IF at = {} THEN 0 ELSE CHOOSE i \in at : \A j \in at : i <= j

\* A replace that leaves the statement as it is.
replaceNothing(s, pat, rep) == s

\* s.replace(pat, rep) with a string pattern: the first occurrence only.
replace(s, pat, rep) ==
  LET i == indexOf(s, pat)
  IN IF i = 0 THEN s
     ELSE SubSeq(s, 1, i - 1) \o rep \o SubSeq(s, i + Len(pat), Len(s))

\* Number(key) is a number when key is all digits, and NaN otherwise.
IsNumeric(key) == \A i \in 1..Len(key) : charAt(key, i) \in DigitChars

DigitValue(ch) == CHOOSE d \in 0..9 : Digits[d + 1] = ch

RECURSIVE Number(_)
Number(key) ==
  IF Len(key) = 0 THEN 0
  ELSE 10 * Number(SubSeq(key, 1, Len(key) - 1)) + DigitValue(charAt(key, Len(key)))

\* An element taken one place too far.
elementAtNext(params, key) ==
  IF IsNumeric(key) /\ Number(key) + 1 \in 1..Len(params)
  THEN params[Number(key) + 1]
  ELSE Undefined

\* params[Number(key) - 1]: undefined when the index is NaN or off the array.
elementAt(params, key) ==
  IF IsNumeric(key) /\ Number(key) \in 1..Len(params)
  THEN params[Number(key)]
  ELSE Undefined

\* An object is its properties in insertion order; obj[key] = value keeps
\* the place of a key the object already has.
ObjIndex(obj, key) ==
  IF \E i \in 1..Len(obj) : obj[i].key = key
  THEN CHOOSE i \in 1..Len(obj) : obj[i].key = key
  ELSE 0

ObjSet(obj, key, value) ==
  LET e == [key |-> key, value |-> value]
  IN IF ObjIndex(obj, key) # 0 THEN [obj EXCEPT ![ObjIndex(obj, key)] = e] ELSE Append(obj, e)

\* The first key alone.
ObjKeysFirst(obj) == [i \in 1..(IF Len(obj) = 0 THEN 0 ELSE 1) |-> obj[i].key]

\* Object.keys(obj)
ObjKeys(obj) == [i \in 1..Len(obj) |-> obj[i].key]

\* The loop of convertParams over the matches from the i-th on.
RECURSIVE convertFrom(_, _, _, _, _)
convertFrom(m, i, params, obj, s) ==
  IF i > Len(m) THEN [paramsObj |-> obj, statement |-> s]
  ELSE LET param == m[i]
           key == SubSeq(param, 2, Len(param))
       IN convertFrom(m, i + 1, params,
                      ObjSet(obj, "p" \o key, elementAt(params, key)),
                      replace(s, param, "@p" \o key))

\* convertParams() for an array that passed the assertion.
convertParams(s, params) == convertFrom(match(s), 1, params, <<>>, s)

\* The driver's column types, each with the arguments it was called with.
mssqlNVarChar == [sql |-> "NVarChar", args |-> <<>>]
mssqlNVarCharOf(length) == [sql |-> "NVarChar", args |-> <<length>>]
mssqlInt == [sql |-> "Int", args |-> <<>>]
mssqlDecimal(precision, scale) == [sql |-> "Decimal", args |-> <<precision, scale>>]
mssqlDate == [sql |-> "Date", args |-> <<>>]
mssqlDateTime2 == [sql |-> "DateTime2", args |-> <<>>]
mssqlDateTimeOffset == [sql |-> "DateTimeOffset", args |-> <<>>]

IsDigit(ch) == \E d \in 1..Len(Digits) : Digits[d] = ch
AllDigits(s) == Len(s) > 0 /\ \A i \in 1..Len(s) : IsDigit(charAt(s, i))

\* The rest of s from position i on matches [eE][+-]?\d+ .
ExponentAt(s, i) ==
  /\ i < Len(s)
  /\ charAt(s, i) \in {"e", "E"}
  /\ IF charAt(s, i + 1) \in {"+", "-"}
     THEN AllDigits(SubSeq(s, i + 2, Len(s)))
     ELSE AllDigits(SubSeq(s, i + 1, Len(s)))

\* Where the exponent group of the match starts: past the end if there is
\* none.
ExponentStart(s) ==
  IF \E i \in 1..Len(s) : ExponentAt(s, i)
  THEN CHOOSE i \in 1..Len(s) : ExponentAt(s, i)
  ELSE Len(s) + 1

\* Where the fraction group \.(\d+) starts, which ends where the exponent
\* group or the end of the string follows: 0 if there is none.
FractionStart(s) ==
  LET e == ExponentStart(s)
      at == {i \in 1..(e - 1) : charAt(s, i) = "." /\ AllDigits(SubSeq(s, i + 1, e - 1))}
  IN IF at = {} THEN 0 ELSE CHOOSE i \in at : TRUE

\* +match[2]: the signed number the exponent digits spell.
ToInt(s) ==
  IF charAt(s, 1) = "-" THEN 0 - Number(SubSeq(s, 2, Len(s)))
  ELSE IF charAt(s, 1) = "+" THEN Number(SubSeq(s, 2, Len(s)))
  ELSE Number(s)

Max(a, b) == IF a >= b THEN a ELSE b

\* A count of the fraction digits that takes no notice of an exponent.
decimalPlacesOfFraction(num) ==
  LET e == ExponentStart(num)
      f == FractionStart(num)
  IN IF f = 0 THEN 0 ELSE e - 1 - f

\* ('' + num).match(/(?:\.(\d+))?(?:[eE]([+-]?\d+))?$/), and then
\* Math.max(0, (match[1] ? match[1].length : 0) - (match[2] ? +match[2] : 0));
\* num is the string form already.
decimalPlaces(num) ==
  LET e == ExponentStart(num)
      f == FractionStart(num)
      fraction == IF f = 0 THEN 0 ELSE e - 1 - f
      exponent == IF e > Len(num) THEN 0 ELSE ToInt(SubSeq(num, e + 1, Len(num)))
  IN Max(0, fraction - exponent)

\* A datetime that is an offset type whatever the timezone says.
getTypeOffsetAlways(value, param) ==
  IF param.js = "object" /\ param.type # ""
  THEN CASE param.type = "integer" -> mssqlInt
         [] param.type = "number" -> mssqlDecimal(param.maxLength, param.decimals)
         [] param.type = "date" -> mssqlDate
         [] param.type = "datetime" -> mssqlDateTimeOffset
         [] param.type = "string" /\ param.maxLength # 0 -> mssqlNVarCharOf(param.maxLength)
         [] OTHER -> mssqlNVarChar
  ELSE IF value.js = "date" THEN mssqlDateTime2
  ELSE IF value.js = "number" THEN mssqlDecimal(Len(value.v), decimalPlaces(value.v))
  ELSE mssqlNVarChar

\* getType(value, param): by the descriptor's type if it has one, else by
\* the value.
getType(value, param) ==
  IF param.js = "object" /\ param.type # ""
  THEN CASE param.type = "integer" -> mssqlInt
         [] param.type = "number" -> mssqlDecimal(param.maxLength, param.decimals)
         [] param.type = "date" -> mssqlDate
         [] param.type = "datetime" ->
              IF param.timezone = "ignore" THEN mssqlDateTime2 ELSE mssqlDateTimeOffset
         [] param.type = "string" /\ param.maxLength # 0 -> mssqlNVarCharOf(param.maxLength)
         [] OTHER -> mssqlNVarChar
  ELSE IF value.js = "date" THEN mssqlDateTime2
  ELSE IF value.js = "number" THEN mssqlDecimal(Len(value.v), decimalPlaces(value.v))
  ELSE mssqlNVarChar

Epoch == "1970-01-01T00:00:00.000Z"
InvalidDate == DateOf("Invalid Date")

\* new Date(value) for the values of the model: a date-only string is
\* midnight UTC of that day, a full ISO string is that instant, any other
\* string is no date; zero and false are the epoch.
NewDate(value) ==
  CASE value.js = "string" /\ Len(value.v) = Len("2014-12-31") /\ AllDigits(SubSeq(value.v, 1, 4))
         -> DateOf(value.v \o SubSeq(Epoch, Len("2014-12-31") + 1, Len(Epoch)))
    [] value.js = "string" /\ Len(value.v) = Len(Epoch) /\ AllDigits(SubSeq(value.v, 1, 4))
         -> DateOf(value.v)
    [] value.js = "number" /\ value.v = "0" -> DateOf(Epoch)
    [] value.js = "boolean" /\ value.v = "false" -> DateOf(Epoch)
    [] OTHER -> InvalidDate

\* toISOString().substring(0, 23) + '000'
Normalized(date) == Str(SubSeq(date.v, 1, 23) \o "000")

\* A binding that takes a descriptor's falsy value for a missing one.
bindParamTruthy(param) ==
  IF param.js \in {"object", "null"}
  THEN LET held == IF param.js = "object" /\ param.value \notin {Undefined, Str(""), Num("0"), Bool("false")}
                   THEN param.value ELSE Null
           value == IF held # Null /\ param.type \in {"date", "datetime"} /\ held.js # "date"
                    THEN NewDate(held) ELSE held
       IN [value |-> value, type |-> getType(value, param)]
  ELSE LET held == IF param # Undefined THEN param ELSE Null
           value == IF held.js = "date" THEN Normalized(held) ELSE held
       IN [value |-> value, type |-> getType(value, Undefined)]

\* The body of Object.keys(params).forEach: the value that goes into
\* input[key] and the type ps.input declares for it.  typeof null is
\* 'object', so a null parameter takes the descriptor branch.
bindParam(param) ==
  IF param.js \in {"object", "null"}
  THEN LET held == IF param.js = "object" /\ param.value # Undefined THEN param.value ELSE Null
           value == IF held # Null /\ param.type \in {"date", "datetime"} /\ held.js # "date"
                    THEN NewDate(held) ELSE held
       IN [value |-> value, type |-> getType(value, param)]
  ELSE LET held == IF param # Undefined THEN param ELSE Null
           value == IF held.js = "date" THEN Normalized(held) ELSE held
       IN [value |-> value, type |-> getType(value, Undefined)]

\* The object input once the loop is through.
inputOf(obj) ==
  [i \in 1..Len(obj) |-> [key |-> obj[i].key, value |-> bindParam(obj[i].value).value]]

\* The types ps.input was called with, in the order of the calls.
typesOf(obj) == [i \in 1..Len(obj) |-> bindParam(obj[i].value).type]

\* A fold that takes the first element whatever the others are.
foldValueFirst(value) ==
  IF value.js = "array" /\ Len(value.elems) > 1 THEN value.elems[1] ELSE value

\* A fold that turns round the arrays it cannot collapse.
foldValueReverses(value) ==
  IF value.js = "array" /\ Len(value.elems) > 1
  THEN IF \A i \in 1..Len(value.elems) : value.elems[i] = value.elems[1]
       THEN value.elems[1]
       ELSE ArrayOf([i \in 1..Len(value.elems) |-> value.elems[Len(value.elems) + 1 - i]])
  ELSE value

\* What fold leaves under one key: Array.isArray(value) && value.length > 1
\* and every(value, el => el === first).
foldValue(value) ==
  IF value.js = "array" /\ Len(value.elems) > 1
     /\ \A i \in 1..Len(value.elems) : value.elems[i] = value.elems[1]
  THEN value.elems[1]
  ELSE value

\* fold(record): every key keeps its place.
fold(record) ==
  [i \in 1..Len(record) |-> [key |-> record[i].key, value |-> foldValue(record[i].value)]]

\* What the driver resolves a request with: a recordset, or none for a
\* statement that selects nothing.
NoRecordset == [defined |-> FALSE, recordset |-> <<>>]
Recordset(rows) == [defined |-> TRUE, recordset |-> rows]

\* No rows, whatever the driver gave.
rowsOfNothing(answer) == <<>>

\* recordset ? recordset.map(fold) : []
rowsOf(answer) ==
  IF answer.defined
  THEN [i \in 1..Len(answer.recordset) |-> fold(answer.recordset[i])]
  ELSE <<>>

\* The rows of the model: up to MaxCols columns c1, c2, ..., each a value
\* or an array of up to MaxElems values, as the driver gives the columns
\* that share a name.
ColumnValues == Values \cup {ArrayOf(e) : e \in UNION {[1..n -> Values] : n \in 0..MaxElems}}

\* The object that holds the values under the names prefix1, prefix2, ...
Named(prefix, values) ==
  [i \in 1..Len(values) |-> [key |-> prefix \o NumToStr(i), value |-> values[i]]]

Rows == UNION {{Named("c", r) : r \in [1..n -> ColumnValues]} : n \in 0..MaxCols}

\* Recordsets of no row, of one row, and of two rows of the empty and the
\* one-column rows.
Recordsets ==
  {<<>>} \cup {<<r>> : r \in Rows}
         \cup {<<r, s>> : r \in {x \in Rows : Len(x) <= 1}, s \in {x \in Rows : Len(x) <= 1}}

\* The statements run without parameters: one that selects and one that
\* does not.
Scripts == {"SELECT *", "CREATE TABLE"}
IsSelect(s) == Len(s) >= Len("SELECT") /\ SubSeq(s, 1, Len("SELECT")) = "SELECT"
Answers(s) == IF IsSelect(s) THEN {Recordset(rows) : rows \in Recordsets} ELSE {NoRecordset}

\* The parameters of the model: raw values and descriptors.
Numerals == {"0", "3", "12", "59.99", "0.99", "-5", "-0.5",
             "1e-7", "1.5e-7", "1e+21", "1.5e+21"}
ADate == DateOf("2014-12-31T10:20:30.123Z")
RawParams ==
  {Undefined, Null, Str(""), Str("Duck"), Bool("false"), Bool("true"), ADate}
    \cup {Num(n) : n \in Numerals}
HeldValues ==
  {Undefined, Null, Str(""), Str("2014-12-31"), Num("0"), Num("59.99"), Bool("false"), ADate}
Types == {"", "integer", "number", "date", "datetime", "string", "boolean"}
Lengths == {0, 30}
Decimals == {0, 2}
Timezones == {"", "ignore", "utc"}
Descriptors ==
  {Descriptor(v, t, l, d, z) :
     v \in HeldValues, t \in Types, l \in Lengths, d \in Decimals, z \in Timezones}
Params == RawParams \cup Descriptors

\* Objects of up to MaxParams keys k1, k2, ..., and the statements that
\* name none, one or two of them.
Objects == UNION {{Named("k", a) : a \in [1..n -> Values]} : n \in 0..MaxParams}
ObjectStatements == {"", "@k1", "@k2 @k1"}

\* The then-handlers that run once the connection is there: convertParams,
\* new PreparedStatement, ps.input for every key, and ps.prepare(statement).
\* A failed assertion rejects the call before the prepared statement exists;
\* an object is taken as it is, and so is the statement then.
bindAndPrepare(q, connection) ==
  IF given'.form = "array" /\ ~arityOk(given'.statement, given'.params)
  THEN /\ result' = [result EXCEPT ![q] = Rejected(ArityMessage)]
       /\ pc' = [pc EXCEPT ![q] = "done"]
       /\ statement' = given'.statement
       /\ UNCHANGED <<paramsObj, input, ps, request>>
  ELSE LET cv == IF given'.form = "array"
                 THEN convertParams(given'.statement, given'.params)
                 ELSE [paramsObj |-> given'.params, statement |-> given'.statement]
       IN /\ statement' = cv.statement
          /\ paramsObj' = cv.paramsObj
          /\ input' = inputOf(cv.paramsObj)
          /\ ps' = [NoPs EXCEPT !.connection = connection,
                                !.declared = ObjKeys(cv.paramsObj),
                                !.types = typesOf(cv.paramsObj),
                                !.prepared = <<cv.statement>>]
          /\ result' = [result EXCEPT ![q] = Pending]
          /\ pc' = [pc EXCEPT ![q] = "preparing"]
          /\ UNCHANGED request

\* new mssql.Request(connection).query(statement) or .batch(script)
requestIssued(q, method, connection) ==
  /\ request' = [sent |-> <<[connection |-> connection, method |-> method,
                             text |-> given'.statement]>>,
                 outcome |-> Pending]
  /\ statement' = given'.statement
  /\ result' = [result EXCEPT ![q] = Pending]
  /\ pc' = [pc EXCEPT ![q] = "requesting"]
  /\ UNCHANGED <<paramsObj, input, ps>>

\* What query() does with its connection: without params the statement
\* goes to the driver as it is, with params it is prepared.
queryIssued(q, connection) ==
  IF given'.form \in {"undefined", "null"}
  THEN requestIssued(q, "query", connection)
  ELSE bindAndPrepare(q, connection)

\* A call that connects whatever its options say.
connectIgnoringTransaction(q) == connect(q, NoOverride)

\* transaction ? Promise.resolve(transaction) : this.connect()
connectOrTransaction(q) ==
  IF options'.transaction # NoTx
  THEN UNCHANGED <<connVars, loc>>
  ELSE connect(q, NoOverride)

\* The connection connect() resolves with at once, there being one.
Pooled == ConnectionObj(MapGet(Registry, getConnectionKey(ConfigOf(NoOverride))).connection)

\* The body of query() once its arguments are known.
queryEntered(q) ==
  /\ connectOrTransaction(q)
  /\ op' = [op EXCEPT ![q] = "query"]
  /\ IF options'.transaction # NoTx
     THEN queryIssued(q, TransactionObj(options'.transaction))
     ELSE IF Reuses(NoOverride)
     THEN queryIssued(q, Pooled)
     ELSE /\ result' = [result EXCEPT ![q] = Pending]
          /\ pc' = [pc EXCEPT ![q] = "connecting"]
          /\ statement' = given'.statement
          /\ UNCHANGED <<paramsObj, input, ps, request>>
  /\ UNCHANGED <<closing, txVars>>

\* The body of batch() once its arguments are known.
batchEntered(q) ==
  /\ connectOrTransaction(q)
  /\ op' = [op EXCEPT ![q] = "batch"]
  /\ IF options'.transaction # NoTx
     THEN requestIssued(q, "batch", TransactionObj(options'.transaction))
     ELSE IF Reuses(NoOverride)
     THEN requestIssued(q, "batch", Pooled)
     ELSE /\ result' = [result EXCEPT ![q] = Pending]
          /\ pc' = [pc EXCEPT ![q] = "connecting"]
          /\ statement' = given'.statement
          /\ UNCHANGED <<paramsObj, input, ps, request>>
  /\ UNCHANGED <<closing, txVars>>

\* The statements of the calls made on a transaction, and the one
\* parameter some of them have.
TxStatements ==
  {[statement |-> "CREATE TABLE", form |-> "undefined", params |-> <<>>],
   [statement |-> "$1", form |-> "array", params |-> <<Str("Duck")>>]}

\* The transaction handle of t is in its caller's hands: fn(transaction) is
\* running, or beginTransaction() has resolved with it.
HandleOut(t) == pc[t] \in {"working", "ready"}

\* layer.query(statement, params, {transaction}) and layer.execute(...)
QueryOn(q, t) ==
  /\ pc[q] = "idle"
  /\ HandleOut(t)
  /\ \E g \in TxStatements : given' = g
  /\ options' = [transaction |-> t]
  /\ queryEntered(q)

\* layer.batch(script, {transaction})
BatchOn(q, t) ==
  /\ pc[q] = "idle"
  /\ HandleOut(t)
  /\ given' = [statement |-> "CREATE TABLE", form |-> "undefined", params |-> <<>>]
  /\ options' = [transaction |-> t]
  /\ batchEntered(q)

\* layer.query(statement, params) and layer.execute(statement, params), which
\* hands its arguments to query(): with an array and without a transaction
\* option.
Query(q) ==
  /\ pc[q] = "idle"
  /\ \E s \in Statements, params \in Arrays :
       given' = [statement |-> s, form |-> "array", params |-> params]
  /\ options' = NoOptions
  /\ queryEntered(q)

\* query() with an object of parameters.
QueryObject(q) ==
  /\ pc[q] = "idle"
  /\ \E s \in ObjectStatements, params \in Objects :
       given' = [statement |-> s, form |-> "object", params |-> params]
  /\ options' = NoOptions
  /\ queryEntered(q)

\* query() with one parameter, in an array or under a name.
QueryParam(q) ==
  /\ pc[q] = "idle"
  /\ \E p \in Params :
       \/ given' = [statement |-> "$1", form |-> "array", params |-> <<p>>]
       \/ given' = [statement |-> "@k1", form |-> "object",
                    params |-> Named("k", <<p>>)]
  /\ options' = NoOptions
  /\ queryEntered(q)

\* query() with no parameters: none passed, null, an empty array or an
\* empty object.
QueryPlain(q) ==
  /\ pc[q] = "idle"
  /\ \E s \in Scripts, form \in {"undefined", "null", "array", "object"} :
       given' = [statement |-> s, form |-> form, params |-> <<>>]
  /\ options' = NoOptions
  /\ queryEntered(q)

QueryConnectOk(q) ==
  /\ pc[q] = "connecting"
  /\ op[q] = "query"
  /\ registerConnection(q)
  /\ given' = given
  /\ options' = options
  /\ queryIssued(q, ConnectionObj(loc[q].connection))
  /\ UNCHANGED <<op, loc, closing, txVars>>

QueryConnectFail(q, e) ==
  /\ pc[q] = "connecting"
  /\ op[q] = "query"
  /\ connectFailed(q)
  /\ result' = [result EXCEPT ![q] = Rejected(e)]
  /\ pc' = [pc EXCEPT ![q] = "done"]
  /\ UNCHANGED <<op, loc, closing, txVars, queryVars>>

\* Request.query resolved: the call resolves with the rows.
QueryRequestOk(q) ==
  /\ pc[q] = "requesting"
  /\ op[q] = "query"
  /\ \E answer \in Answers(request.sent[1].text) :
       /\ request' = [request EXCEPT !.outcome = Resolved(answer)]
       /\ result' = [result EXCEPT ![q] = Resolved(rowsOf(answer))]
  /\ pc' = [pc EXCEPT ![q] = "done"]
  /\ UNCHANGED <<connVars, op, loc, closing, txVars, given, options, statement, paramsObj, input, ps>>

QueryRequestFail(q, e) ==
  /\ pc[q] = "requesting"
  /\ op[q] = "query"
  /\ request' = [request EXCEPT !.outcome = Rejected(e)]
  /\ result' = [result EXCEPT ![q] = Rejected(e)]
  /\ pc' = [pc EXCEPT ![q] = "done"]
  /\ UNCHANGED <<connVars, op, loc, closing, txVars, given, options, statement, paramsObj, input, ps>>

\* layer.batch(script), without a transaction option.
Batch(q) ==
  /\ pc[q] = "idle"
  /\ \E script \in Scripts :
       given' = [statement |-> script, form |-> "undefined", params |-> <<>>]
  /\ options' = NoOptions
  /\ batchEntered(q)

BatchConnectOk(q) ==
  /\ pc[q] = "connecting"
  /\ op[q] = "batch"
  /\ registerConnection(q)
  /\ given' = given
  /\ options' = options
  /\ requestIssued(q, "batch", ConnectionObj(loc[q].connection))
  /\ UNCHANGED <<op, loc, closing, txVars>>

BatchConnectFail(q, e) ==
  /\ pc[q] = "connecting"
  /\ op[q] = "batch"
  /\ connectFailed(q)
  /\ result' = [result EXCEPT ![q] = Rejected(e)]
  /\ pc' = [pc EXCEPT ![q] = "done"]
  /\ UNCHANGED <<op, loc, closing, txVars, queryVars>>

\* Request.batch resolved: the call resolves with the rows.
BatchOk(q) ==
  /\ pc[q] = "requesting"
  /\ op[q] = "batch"
  /\ \E answer \in Answers(request.sent[1].text) :
       /\ request' = [request EXCEPT !.outcome = Resolved(answer)]
       /\ result' = [result EXCEPT ![q] = Resolved(rowsOf(answer))]
  /\ pc' = [pc EXCEPT ![q] = "done"]
  /\ UNCHANGED <<connVars, op, loc, closing, txVars, given, options, statement, paramsObj, input, ps>>

BatchFail(q, e) ==
  /\ pc[q] = "requesting"
  /\ op[q] = "batch"
  /\ request' = [request EXCEPT !.outcome = Rejected(e)]
  /\ result' = [result EXCEPT ![q] = Rejected(e)]
  /\ pc' = [pc EXCEPT ![q] = "done"]
  /\ UNCHANGED <<connVars, op, loc, closing, txVars, given, options, statement, paramsObj, input, ps>>

\* ps.prepare resolved: ps.execute(input) is issued.
PrepareOk(q) ==
  /\ pc[q] = "preparing"
  /\ ps' = [ps EXCEPT !.executed = <<input>>]
  /\ pc' = [pc EXCEPT ![q] = "executing"]
  /\ UNCHANGED <<connVars, op, loc, result, closing, txVars, given, options, statement, paramsObj,
                 input, request>>

\* ps.prepare rejected: nothing was prepared, so nothing is unprepared.
PrepareFail(q, e) ==
  /\ pc[q] = "preparing"
  /\ result' = [result EXCEPT ![q] = Rejected(e)]
  /\ pc' = [pc EXCEPT ![q] = "done"]
  /\ UNCHANGED <<connVars, op, loc, closing, txVars, queryVars>>

\* An unprepare that is not counted.
unprepareSkipped(outcome) == [ps EXCEPT !.outcome = outcome]

\* ps.execute settled: ps.unprepare() is issued, and the call will settle as
\* the execute did once that is through.
unprepareIssued(outcome) == [ps EXCEPT !.unprepared = @ + 1, !.outcome = outcome]

ExecuteOk(q) ==
  /\ pc[q] = "executing"
  /\ \E answer \in Answers(ps.prepared[1]) : ps' = unprepareIssued(Resolved(answer))
  /\ pc' = [pc EXCEPT ![q] = "unpreparing"]
  /\ UNCHANGED <<connVars, op, loc, result, closing, txVars, given, options, statement, paramsObj,
                 input, request>>

ExecuteFail(q, e) ==
  /\ pc[q] = "executing"
  /\ ps' = unprepareIssued(Rejected(e))
  /\ pc' = [pc EXCEPT ![q] = "unpreparing"]
  /\ UNCHANGED <<connVars, op, loc, result, closing, txVars, given, options, statement, paramsObj,
                 input, request>>

\* ps.unprepare resolved: the call resolves with the rows of the execute, or
\* rejects as the execute did.
UnprepareOk(q) ==
  /\ pc[q] = "unpreparing"
  /\ result' = [result EXCEPT ![q] = IF ps.outcome.st = "resolved"
                                     THEN Resolved(rowsOf(ps.outcome.val))
                                     ELSE ps.outcome]
  /\ pc' = [pc EXCEPT ![q] = "done"]
  /\ UNCHANGED <<connVars, op, loc, closing, txVars, queryVars>>

\* ps.unprepare rejected.  On the success path the catch handler chained
\* after it takes the failure as it takes a failure of execute and issues
\* ps.unprepare() again; on the failure path the call rejects.
UnprepareFail(q, e) ==
  /\ pc[q] = "unpreparing"
  /\ IF ps.outcome.st = "resolved"
     THEN /\ ps' = unprepareIssued(Rejected(e))
          /\ UNCHANGED <<pc, result>>
     ELSE /\ result' = [result EXCEPT ![q] = Rejected(e)]
          /\ pc' = [pc EXCEPT ![q] = "done"]
          /\ UNCHANGED ps
  /\ UNCHANGED <<connVars, op, loc, closing, txVars, given, options, statement, paramsObj, input,
                 request>>

NextQuery ==
  \/ Query(QueryCall)
  \/ QueryConnectOk(QueryCall)
  \/ \E e \in ConnectErrors : QueryConnectFail(QueryCall, e)
  \/ PrepareOk(QueryCall)
  \/ \E e \in PrepareErrors : PrepareFail(QueryCall, e)
  \/ ExecuteOk(QueryCall)
  \/ \E e \in ExecuteErrors : ExecuteFail(QueryCall, e)
  \/ UnprepareOk(QueryCall)
  \/ \E e \in UnprepareErrors : UnprepareFail(QueryCall, e)

SpecQuery == Init /\ [][NextQuery]_vars

\* Calls with parameters of every kind.
NextBind ==
  \/ QueryObject(QueryCall)
  \/ QueryParam(QueryCall)
  \/ QueryConnectOk(QueryCall)
  \/ \E e \in ConnectErrors : QueryConnectFail(QueryCall, e)
  \/ PrepareOk(QueryCall)
  \/ \E e \in PrepareErrors : PrepareFail(QueryCall, e)
  \/ ExecuteOk(QueryCall)
  \/ \E e \in ExecuteErrors : ExecuteFail(QueryCall, e)
  \/ UnprepareOk(QueryCall)
  \/ \E e \in UnprepareErrors : UnprepareFail(QueryCall, e)

SpecBind == Init /\ [][NextBind]_vars

\* Calls without parameters, and what comes back from them.
NextRows ==
  \/ QueryPlain(QueryCall)
  \/ Batch(QueryCall)
  \/ QueryConnectOk(QueryCall)
  \/ \E e \in ConnectErrors : QueryConnectFail(QueryCall, e)
  \/ BatchConnectOk(QueryCall)
  \/ \E e \in ConnectErrors : BatchConnectFail(QueryCall, e)
  \/ QueryRequestOk(QueryCall)
  \/ \E e \in ExecuteErrors : QueryRequestFail(QueryCall, e)
  \/ BatchOk(QueryCall)
  \/ \E e \in ExecuteErrors : BatchFail(QueryCall, e)
  \/ PrepareOk(QueryCall)
  \/ \E e \in PrepareErrors : PrepareFail(QueryCall, e)
  \/ ExecuteOk(QueryCall)
  \/ \E e \in ExecuteErrors : ExecuteFail(QueryCall, e)
  \/ UnprepareOk(QueryCall)
  \/ \E e \in UnprepareErrors : UnprepareFail(QueryCall, e)

SpecRows == Init /\ [][NextRows]_vars

\* Transactions in an isolation level the caller names, and calls made on
\* their handles.
NextTx ==
  \/ \E t \in Txs : TransactionIn(t)
  \/ \E t \in Txs : BeginTransactionIn(t)
  \/ \E t \in Txs : TxConnectOk(t)
  \/ \E t \in Txs, e \in ConnectErrors : TxConnectFail(t, e)
  \/ \E t \in Txs : BeginOk(t)
  \/ \E t \in Txs, e \in BeginErrors : BeginFail(t, e)
  \/ \E t \in Txs, r \in Results : WorkResolve(t, r)
  \/ \E t \in Txs, e \in WorkErrors : WorkReject(t, e)
  \/ \E t \in Txs : CommitOk(t)
  \/ \E t \in Txs, e \in CommitErrors : CommitFail(t, e)
  \/ \E t \in Txs : RollbackOk(t)
  \/ \E t \in Txs, e \in RollbackErrors : RollbackFail(t, e)
  \/ \E t \in Txs : Abort(t)
  \/ \E t \in Txs : QueryOn(QueryCall, t)
  \/ \E t \in Txs : BatchOn(QueryCall, t)
  \/ QueryRequestOk(QueryCall)
  \/ \E e \in ExecuteErrors : QueryRequestFail(QueryCall, e)
  \/ BatchOk(QueryCall)
  \/ \E e \in ExecuteErrors : BatchFail(QueryCall, e)
  \/ PrepareOk(QueryCall)
  \/ \E e \in PrepareErrors : PrepareFail(QueryCall, e)
  \/ ExecuteOk(QueryCall)
  \/ \E e \in ExecuteErrors : ExecuteFail(QueryCall, e)
  \/ UnprepareOk(QueryCall)
  \/ \E e \in UnprepareErrors : UnprepareFail(QueryCall, e)

SpecTx == Init /\ [][NextTx]_vars

\* ------------------------------------------------------------- claims
Scoped(t) == mode[t] = "scoped"
Step(t) == mode[t] = "step"

\* The catch handler of t's current call runs in this step.
Catches(t) == err[t] = "none" /\ err'[t] # "none"

\* The layer issues a driver rollback on t in this step.
IssuesDriverRollback(t) == pc[t] # "rollingback" /\ pc'[t] = "rollingback"

\* C1: a scoped transaction whose work rejected with e while no rollback
\* event had fired issued exactly one driver rollback and no commit, and
\* transaction() rejected with e.
C1_WorkFailureRethrown ==
  \A t \in Txs :
    (Scoped(t) /\ pc[t] = "done" /\ workDone[t].st = "rejected" /\ flagSeen[t] = "false")
      => /\ nRollback[t] = 1
         /\ nCommit[t] = 0
         /\ result[t] = Rejected(workDone[t].val)

\* C2: a scoped transaction whose work resolved with r and whose commit the
\* driver carried out issued exactly one commit and no rollback, and
\* transaction() resolved with r.
C2_CommitResolvesWithResult ==
  \A t \in Txs :
    (Scoped(t) /\ pc[t] = "done" /\ workDone[t].st = "resolved" /\ drv[t] = "committed")
      => /\ nCommit[t] = 1
         /\ nRollback[t] = 0
         /\ result[t] = Resolved(workDone[t].val)

C2_Witness ==
  \E t \in Txs :
    /\ Scoped(t) /\ pc[t] = "done" /\ drv[t] = "committed"
    /\ workDone[t] = Resolved("r2") /\ result[t] = Resolved("r2")

\* C3: once a scoped transaction has settled, none of the rows inserted
\* through its handle is in the table if its work rejected, and all of them
\* are if its work resolved and the commit succeeded.
C3_Atomicity ==
  \A t \in Txs :
    (Scoped(t) /\ pc[t] = "done")
      => /\ workDone[t].st = "rejected" => inserted[t] \cap table = {}
         /\ (workDone[t].st = "resolved" /\ drv[t] = "committed") => inserted[t] \subseteq table

C3_Witness ==
  \E t \in Txs :
    /\ Scoped(t) /\ pc[t] = "done" /\ workDone[t].st = "rejected"
    /\ Cardinality(inserted[t]) = MaxInserts
    /\ drv[t] = "rolledback" /\ inserted[t] \cap table = {}

\* C4: when work or commit failed with e and the rollback the layer then
\* attempted failed too, transaction() rejected with e.
C4_RollbackFailureSwallowed ==
  \A t \in Txs :
    (Scoped(t) /\ pc[t] = "done" /\ err[t] \in WorkErrors \cup CommitErrors
       /\ nRollback[t] = 1 /\ drv[t] # "rolledback")
      => result[t] = Rejected(err[t])

\* C5: when the work or the commit of a scoped transaction fails after the
\* driver has emitted 'rollback' for it, the layer issues no driver rollback
\* and transaction() rejects at once with that failure.
C5_NoRollbackAfterAbort ==
  [][\A t \in Txs :
       (Scoped(t) /\ fired[t] /\ Catches(t))
         => /\ ~IssuesDriverRollback(t)
            /\ nRollback'[t] = nRollback[t]
            /\ pc'[t] = "done"
            /\ result'[t] = Rejected(err'[t])
            /\ pc[t] = "working" => err'[t] = workDone'[t].val]_vars

C5_Witness ==
  \E t \in Txs :
    /\ Scoped(t) /\ pc[t] = "done" /\ drv[t] = "aborted" /\ flagSeen[t] = "true"
    /\ nRollback[t] = 0 /\ result[t] = Rejected(err[t]) /\ err[t] \in WorkErrors

\* C6: rollback(handle) resolves without a driver rollback if the handle's
\* flag is set; otherwise it issues exactly one driver rollback and settles
\* as that rollback does.
C6_StepRollback ==
  \A t \in Txs :
    (Step(t) /\ op[t] = "rollback")
      => /\ nCommit[t] = 0
         /\ flagSeen[t] = "true"
              => nRollback[t] = 0 /\ pc[t] = "ready" /\ result[t] = Resolved("undefined")
         /\ flagSeen[t] = "false"
              => /\ nRollback[t] = 1
                 /\ pc[t] = "rollingback" => result[t] = Pending
                 /\ pc[t] # "rollingback"
                      => IF drv[t] = "rolledback"
                         THEN result[t] = Resolved("undefined")
                         ELSE result[t].st = "rejected" /\ result[t].val \in RollbackErrors

C6_Witness ==
  \E t \in Txs :
    /\ Step(t) /\ op[t] = "rollback" /\ flagSeen[t] = "false" /\ nRollback[t] = 1
    /\ pc[t] = "ready" /\ drv[t] = "rolledback" /\ result[t] = Resolved("undefined")

\* C7: once the driver has emitted 'rollback' for a step-by-step handle, no
\* commit() or rollback() call on it issues a driver rollback.
C7_NoDoubleRollback ==
  [][\A t \in Txs : (Step(t) /\ fired[t]) => ~IssuesDriverRollback(t)]_vars

\* A second rollback(handle), after the first rolled back, resolves as a no-op.
C7_Witness ==
  \E t \in Txs :
    /\ Step(t) /\ op[t] = "rollback" /\ nOps[t] = 2 /\ drv[t] = "rolledback"
    /\ flagSeen[t] = "true" /\ nRollback[t] = 0 /\ result[t] = Resolved("undefined")

\* C8: commit(handle) resolves without a rollback if the driver commits; if
\* the driver's commit fails with e it issues one driver rollback when the
\* flag is clear and none when it is set, and rejects with e either way.
C8_StepCommit ==
  \A t \in Txs :
    (Step(t) /\ op[t] = "commit" /\ pc[t] = "ready")
      => IF err[t] = "none"
         THEN result[t].st = "resolved" /\ nRollback[t] = 0
         ELSE /\ result[t] = Rejected(err[t])
              /\ nRollback[t] = (IF flagSeen[t] = "false" THEN 1 ELSE 0)

\* The registry holds an entry under the key and the password call c asked with.
FindsReusable(c) ==
  /\ MapHas(Registry, loc'[c].key)
  /\ MapGet(Registry, loc'[c].key).password = loc'[c].password

\* Call c enters connect() in this step.
EntersConnect(c) == pc[c] = "idle" /\ pc'[c] # "idle" /\ op'[c] = "connect"

\* C9: a connect() that finds an entry under its key with the password it
\* asks with resolves with that entry's connection, constructs no physical
\* connection and leaves the registry as it was.
C9_ConnectionReuse ==
  [][\A c \in Calls :
       (EntersConnect(c) /\ FindsReusable(c))
         => /\ result'[c] = Resolved(MapGet(Registry, loc'[c].key).connection)
            /\ pc'[c] = "done"
            /\ nHandles' = nHandles
            /\ phys' = phys
            /\ maps' = maps
            /\ connections' = connections]_vars

C9_Witness ==
  \E c \in Calls :
    /\ op[c] = "connect" /\ pc[c] = "done" /\ loc[c].path = "reuse"
    /\ result[c].st = "resolved" /\ result[c].val \in Handles
    /\ phys[result[c].val].st = "connected"
    /\ nHandles = 1

\* C10: when the connect of a connect() that found its key under another
\* password succeeds, the registry holds, under that key, one entry with the
\* new connection and the new password, and the old connection was told to close.
C10_CredentialChange ==
  [][\A c \in Calls :
       (pc[c] = "connecting" /\ loc[c].path = "replace" /\ result'[c].st = "resolved")
         => /\ MapHas(Registry', loc[c].key)
            /\ MapGet(Registry', loc[c].key).connection = loc[c].connection
            /\ MapGet(Registry', loc[c].key).password = loc[c].password
            /\ Cardinality({i \in 1..Len(Registry') : Registry'[i].key = loc[c].key}) = 1]_vars

\* The entries a Map holds under a key.
EntriesUnder(m, key) == {i \in 1..Len(m) : m[i].key = key}

\* The keys connect() can compute from the configs it is called with.
Keys == {getConnectionKey(ConfigOf(o)) : o \in Overrides}

\* C11: every Map the instance has bound this.connections to, the registry
\* among them, holds at most one entry under each pool key.
C11_OneEntryPerKey ==
  \A m \in MapIds : \A key \in Keys : Cardinality(EntriesUnder(maps[m], key)) <= 1

\* Two connections were registered under one key, one after the other, and
\* the registry holds the later one alone.
C11_Witness ==
  \E c, d \in Calls :
    /\ c # d /\ loc[c].key = loc[d].key /\ loc[c].connection # loc[d].connection
    /\ phys[loc[c].connection].st = "connected" /\ phys[loc[d].connection].st = "connected"
    /\ loc[c].map = connections /\ loc[d].map = connections
    /\ Cardinality(EntriesUnder(Registry, loc[c].key)) = 1
    /\ Len(Registry) = 1

\* The layer has not invoked close() on connection h, as this step leaves it.
LiveAfter(h) == ~phys'[h].closed

\* Call c's connect() resolves in this step.
ConnectResolves(c) ==
  op'[c] = "connect" /\ result[c].st = "pending" /\ result'[c].st = "resolved"

\* C12: after every step, each connection the registry holds, and the
\* connection a connect() resolves with in that step, is one the layer has
\* not invoked close() on.
C12_HandlesLive ==
  [][/\ \A i \in 1..Len(Registry') : LiveAfter(Registry'[i].connection)
     /\ \A c \in Calls : ConnectResolves(c) => LiveAfter(result'[c].val)]_vars

\* The connections a Map holds.
HandlesOf(m) == {m[i].connection : i \in 1..Len(m)}

\* Call c, which found no entry under its key, registers its connection in
\* this step over an entry a racing call registered in the meantime.
Overwrites(c) ==
  /\ pc[c] = "connecting" /\ op[c] = "connect" /\ loc[c].path = "create"
  /\ result'[c].st = "resolved"
  /\ MapHas(maps[loc[c].map], loc[c].key)

\* Connection h is connected, the layer has not closed it, no Map holds it
\* and no close() has it left to close.
Unregistered(h) ==
  /\ phys[h].st = "connected" /\ ~phys[h].closed
  /\ \A m \in MapIds : h \notin HandlesOf(maps[m])
  /\ \A c \in Calls : \A i \in 1..Len(closing[c]) : closing[c][i] # h

\* C13: when two connect() calls on one key both found no entry, the
\* registration of the later one replaces the entry of the earlier one, whose
\* connection is left as it is, held by no Map; and a connection that is
\* connected, not closed and held by no Map stays so whatever is called
\* later, close() included.
C13_ConnectRace ==
  [][/\ \A c \in Calls :
          Overwrites(c)
            => LET m == loc[c].map
                   earlier == MapGet(maps[m], loc[c].key).connection
               IN /\ earlier # loc[c].connection
                  /\ MapGet(maps'[m], loc[c].key).connection = loc[c].connection
                  /\ earlier \notin HandlesOf(maps'[m])
                  /\ phys'[earlier] = phys[earlier]
     /\ \A h \in Handles : Unregistered(h) => Unregistered(h)']_vars

\* Two racing connects on one key have both resolved, a later close() has
\* resolved after closing the connection of the one that registered last,
\* and the connection of the other is still connected and was never closed.
C13_Witness ==
  \E c, d, k \in Calls :
    /\ c # d /\ loc[c].key = loc[d].key /\ loc[c].map = loc[d].map
    /\ loc[c].path = "create" /\ loc[d].path = "create"
    /\ result[c] = Resolved(loc[c].connection) /\ result[d] = Resolved(loc[d].connection)
    /\ op[k] = "close" /\ pc[k] = "done" /\ result[k].st = "resolved"
    /\ connections = NoMap
    /\ phys[loc[d].connection].closed
    /\ Unregistered(loc[c].connection)

\* The connect of the connection call c constructed fails in this step.
ConnectFails(c) ==
  /\ pc[c] = "connecting"
  /\ phys[loc[c].connection].st = "connecting"
  /\ phys'[loc[c].connection].st = "failed"

\* C14: when the connect of the connection a call constructed fails, the
\* call rejects with that failure in the same step, no Map and no binding
\* of this.connections changes, and no other connection is constructed or
\* connected in its place; a connection whose connect failed is never
\* connected again.
C14_ConnectFailure ==
  [][/\ \A c \in Procs :
          ConnectFails(c)
            => /\ result'[c].st = "rejected" /\ result'[c].val \in ConnectErrors
               /\ pc'[c] = "done"
               /\ maps' = maps /\ connections' = connections
               /\ nHandles' = nHandles
               /\ \A h \in Handles \ {loc[c].connection} : phys'[h] = phys[h]
               /\ \A m \in MapIds : loc[c].connection \notin HandlesOf(maps'[m])
     /\ \A h \in Handles : phys[h].st = "failed" => phys'[h] = phys[h]]_vars

\* A connect() whose connection failed to connect has rejected, and the
\* registry, which holds another key, has nothing under the key it asked for.
C14_Witness ==
  \E c \in Calls :
    /\ op[c] = "connect" /\ pc[c] = "done" /\ result[c] = Rejected("eConnect")
    /\ phys[loc[c].connection].st = "failed"
    /\ Len(Registry) = 1 /\ ~MapHas(Registry, loc[c].key)

\* Call c enters close() in this step.
CloseCalled(c) == pc[c] = "idle" /\ op'[c] = "close"

\* This step invokes close() on connection h and on no other.
InvokesCloseOn(h) == phys' = [phys EXCEPT ![h].closed = TRUE]

\* C15: close() drops the registry and takes its connections in the Map's
\* order; it invokes close on the first at once, on each next one in the
\* step in which the one before it resolved and on no other in that step,
\* and resolves in the step in which the last one resolved (at once if the
\* registry was empty).  The connection at the head of what is left has
\* had close invoked, and a connection once closed stays closed: when
\* close() resolves, every connection it took from the registry is closed.
C15_CloseSequential ==
  [][/\ \A c \in Calls :
          /\ CloseCalled(c)
               => /\ connections' = NoMap /\ Registry' = <<>>
                  /\ closing'[c] = [i \in 1..Len(Registry) |-> Registry[i].connection]
                  /\ IF Registry = <<>>
                     THEN result'[c].st = "resolved" /\ phys' = phys
                     ELSE result'[c] = Pending /\ InvokesCloseOn(Registry[1].connection)
          /\ (pc[c] = "closing" /\ closing'[c] # closing[c] /\ result'[c].st # "rejected")
               => /\ closing'[c] = Tail(closing[c])
                  /\ IF Len(closing[c]) = 1
                     THEN result'[c].st = "resolved" /\ phys' = phys
                     ELSE result'[c] = Pending /\ InvokesCloseOn(closing[c][2])
          /\ (op'[c] = "close" /\ result'[c].st = "pending")
               => closing'[c] # <<>> /\ phys'[closing'[c][1]].closed
          /\ (op'[c] = "close" /\ result'[c].st = "resolved") => closing'[c] = <<>>
     /\ \A h \in Handles : phys[h].closed => phys'[h].closed]_vars

\* A close() that found two connections registered has resolved, and both
\* are closed.
C15_Witness ==
  \E c \in Calls : \E m \in MapIds :
    /\ op[c] = "close" /\ pc[c] = "done" /\ result[c].st = "resolved"
    /\ connections = NoMap
    /\ Len(maps[m]) = 2
    /\ \A h \in HandlesOf(maps[m]) : phys[h].st = "connected" /\ phys[h].closed

\* The close that call c's close() has in flight fails in this step.
CloseRejects(c) == pc[c] = "closing" /\ result'[c].st = "rejected"

\* C16: when a close that close() invoked fails, close() rejects with that
\* failure in the same step; close is invoked on no connection in that step
\* and the call does nothing afterwards, so the connections after the
\* failed one are left as they were; none of the connections the call took
\* is in the registry.
C16_CloseFailure ==
  [][\A c \in Calls :
       /\ CloseRejects(c)
            => /\ result'[c].val \in CloseErrors
               /\ pc'[c] = "done"
               /\ phys' = phys
               /\ closing'[c] = <<>>
               /\ \A i \in 1..Len(closing[c]) : closing[c][i] \notin HandlesOf(Registry')
       /\ (op[c] = "close" /\ pc[c] = "done")
            => pc'[c] = "done" /\ result'[c] = result[c] /\ closing'[c] = closing[c]]_vars

\* A close() that found two connections registered has rejected with the
\* failure of the first close; the second connection is still open and the
\* registry is gone.
C16_Witness ==
  \E c \in Calls : \E m \in MapIds :
    /\ op[c] = "close" /\ pc[c] = "done" /\ result[c] = Rejected("eClose")
    /\ connections = NoMap
    /\ Len(maps[m]) = 2
    /\ phys[maps[m][1].connection].closed
    /\ phys[maps[m][2].connection].st = "connected" /\ ~phys[maps[m][2].connection].closed

\* Some close() has been called on the instance.
CloseWasCalled == \E k \in Calls : op[k] = "close"

\* The Maps close() has dropped.
DroppedMaps == {m \in 1..nMaps : m # connections}

Queried == op[QueryCall] = "query"

\* The placeholders of a statement, each once however often it occurs.
Placeholders(s) == {match(s)[i] : i \in 1..Len(match(s))}

\* The index a placeholder names.
IndexOf(token) == SubSeq(token, 2, Len(token))

\* Every placeholder of s is positional and names an element of an array
\* of n elements, and there is at least one.
Positional(s, n) ==
  /\ Placeholders(s) # {}
  /\ \A token \in Placeholders(s) :
       IsNumeric(IndexOf(token)) /\ Number(IndexOf(token)) \in 1..n

\* The message names the arity failure.
Contains(message, part) ==
  \E i \in 1..(Len(message) - Len(part) + 1) : SubSeq(message, i, i + Len(part) - 1) = part

\* The call failed on the arity of its array.
ArityError ==
  result[QueryCall].st = "rejected" /\ Contains(result[QueryCall].val, "more parameters")

\* C18: a query() whose statement has positional placeholders, each naming
\* an element of the array, and whose array has at least as many elements
\* as the statement has distinct placeholders, does not fail on arity.
C18_AritySuccess ==
  LET s == given.statement
      a == given.params
  IN (Queried /\ Positional(s, Len(a)) /\ Len(a) >= Cardinality(Placeholders(s)))
       => ~ArityError

\* The call has settled after its connection was obtained.
SettledConnected ==
  pc[QueryCall] = "done" /\ phys[loc[QueryCall].connection].st = "connected"

\* C19: a query() whose array has fewer elements than its statement has
\* distinct placeholders declares no input and issues no prepare and no
\* execute; it rejects, and once it has its connection it rejects with a
\* message that contains 'more parameters'.
C19_ArityFailure ==
  LET s == given.statement
      a == given.params
  IN (Queried /\ Len(a) < Cardinality(Placeholders(s)))
       => /\ ps = NoPs /\ input = <<>> /\ statement = s
          /\ pc[QueryCall] = "done" => result[QueryCall].st = "rejected"
          /\ SettledConnected => ArityError

\* '$1$2' with one element: rejected on arity, nothing prepared.
C19_Witness ==
  /\ Queried /\ given = [statement |-> "$1$2", form |-> "array", params |-> <<Str("Duck")>>]
  /\ SettledConnected /\ ArityError
  /\ ps.prepared = <<>> /\ ps.executed = <<>>

\* The statement with every placeholder $k replaced by @pk, from position
\* i on: all other characters are copied.
RECURSIVE RewrittenFrom(_, _)
RewrittenFrom(s, i) ==
  IF i > Len(s) THEN ""
  ELSE LET n == WordRun(s, i + 1)
       IN IF charAt(s, i) = "$" /\ n > 0
          THEN "@p" \o SubSeq(s, i + 1, i + n) \o RewrittenFrom(s, i + n + 1)
          ELSE charAt(s, i) \o RewrittenFrom(s, i + 1)

Rewritten(s) == RewrittenFrom(s, 1)

\* The call passed the arity check and went on to prepare.
Bound == Queried /\ ps.prepared # <<>>

\* C20: when the array passes the arity check, the statement given to
\* prepare is the original with every placeholder $k replaced by @pk and
\* nothing else changed, and no placeholder is left in it; the declared
\* inputs are, once each, the names pk of the placeholders $k that occur;
\* the input pk with k in 1..N holds params[k-1]; and it is this input that
\* is handed to execute.
C20_PositionalRewriting ==
  LET s == given.statement
      a == given.params
  IN Bound
       => /\ ps.prepared = <<Rewritten(s)>>
          /\ match(ps.prepared[1]) = <<>>
          /\ {ps.declared[i] : i \in 1..Len(ps.declared)}
               = {"p" \o IndexOf(token) : token \in Placeholders(s)}
          /\ Len(ps.declared) = Cardinality(Placeholders(s))
          /\ ObjKeys(input) = ps.declared
          /\ \A k \in 1..Len(a) :
               \A i \in 1..Len(input) :
                 input[i].key = "p" \o NumToStr(k) => input[i].value = a[k]
          /\ ps.executed # <<>> => ps.executed = <<input>>

\* '$2$1' with two elements is executed as '@p2@p1' with p2 the second
\* element and p1 the first.
C20_Witness ==
  /\ Queried /\ given = [statement |-> "$2$1", form |-> "array", params |-> <<Str("Duck"), Str("Corn")>>]
  /\ pc[QueryCall] = "executing"
  /\ ps.prepared = <<"@p2@p1">>
  /\ ps.declared = <<"p2", "p1">>
  /\ ps.executed = <<(<<[key |-> "p2", value |-> Str("Corn")], [key |-> "p1", value |-> Str("Duck")]>>)>>

\* The call has its connection.
Connected ==
  /\ Queried
  /\ pc[QueryCall] \notin {"idle", "connecting"}
  /\ phys[loc[QueryCall].connection].st = "connected"

DriverErrors == ConnectErrors \cup PrepareErrors \cup ExecuteErrors \cup UnprepareErrors

\* C21: a query() with an object of parameters declares every key of the
\* object as an input under its own name, in the order of the keys and
\* whether the statement names the key or not, with the value the key
\* holds; the statement goes to prepare as it was given; and the call fails
\* only if the driver does, however many keys the object has.
C21_NamedBinding ==
  LET o == given.params
  IN (Connected /\ given.form = "object")
       => /\ ps.declared = [i \in 1..Len(o) |-> o[i].key]
          /\ [i \in 1..Len(input) |-> input[i].key] = ps.declared
          /\ ps.prepared = <<given.statement>>
          /\ statement = given.statement
          /\ result[QueryCall].st = "rejected" => result[QueryCall].val \in DriverErrors

\* '@k1' with the keys k1 and k2 is prepared as it is, with both declared.
C21_Witness ==
  /\ Connected /\ pc[QueryCall] = "executing"
  /\ given = [statement |-> "@k1", form |-> "object",
              params |-> Named("k", <<Str("Duck"), Str("Corn")>>)]
  /\ ps.declared = <<"k1", "k2">>
  /\ ps.prepared = <<"@k1">>

\* The call bound one parameter and went on to prepare.
BoundOne == Bound /\ Len(given.params) = 1 /\ Len(input) = 1

\* The one parameter of the call and the value bound for it.
TheParam == IF given.form = "array" THEN given.params[1] ELSE given.params[1].value
TheValue == input[1].value

\* Null, undefined, or a descriptor with no value, an undefined or a null one.
Nullish(param) ==
  \/ param \in {Null, Undefined}
  \/ param.js = "object" /\ param.value \in {Null, Undefined}

Falsy == {Num("0"), Str(""), Bool("false")}

\* The descriptor declares a date type.
DateTyped(param) == param.type \in {"date", "datetime"}

\* C22 as the specification has it: the bound value is NULL exactly for a
\* nullish parameter, and a falsy value, raw or held by a descriptor, is
\* bound as itself.
C22_FalsyAsItself ==
  BoundOne
    => /\ TheValue = Null <=> Nullish(TheParam)
       /\ TheParam \in Falsy => TheValue = TheParam
       /\ (TheParam.js = "object" /\ TheParam.value \in Falsy)
            => TheValue = TheParam.value

\* C22: the bound value is NULL exactly when the parameter is null or
\* undefined or a descriptor whose value is absent, undefined or null; a
\* raw falsy value is bound as itself; a falsy value held by a descriptor is
\* bound as itself unless the descriptor's type is 'date' or 'datetime',
\* and then a Date made from it is bound, which is not NULL either.
C22_NullVsFalsy ==
  BoundOne
    => /\ TheValue = Null <=> Nullish(TheParam)
       /\ TheParam \in Falsy => TheValue = TheParam
       /\ (TheParam.js = "object" /\ TheParam.value \in Falsy)
            => IF DateTyped(TheParam)
               THEN TheValue.js = "date"
               ELSE TheValue = TheParam.value

\* {value: 0, type: 'date'} in an array is executed with the Date of the
\* epoch for p1.
C22_Witness ==
  /\ BoundOne /\ pc[QueryCall] = "executing"
  /\ given.form = "array"
  /\ TheParam.js = "object" /\ TheParam.value = Num("0") /\ TheParam.type = "date"
  /\ ps.executed = <<(<<[key |-> "p1", value |-> DateOf(Epoch)]>>)>>

\* The prepare of the call succeeded: execute was issued.
PrepareSucceeded == Queried /\ ps.executed # <<>>

\* The promise query() returned has settled.
QuerySettled == pc[QueryCall] = "done" /\ result[QueryCall].st # "pending"

\* C23: in a query() with params whose prepare succeeded, unprepare is not
\* invoked while execute is outstanding, it is invoked in the step in which
\* execute settles, resolved or rejected, and it has been invoked when the
\* promise of the call settles.
C23_Cleanup ==
  PrepareSucceeded
    => /\ pc[QueryCall] = "executing" <=> ps.outcome = Pending
       /\ ps.outcome = Pending => ps.unprepared = 0
       /\ ps.outcome # Pending => ps.unprepared >= 1
       /\ QuerySettled => ps.unprepared >= 1

\* A call that resolved after its one unprepare.
C23_Witness ==
  /\ PrepareSucceeded /\ QuerySettled
  /\ result[QueryCall].st = "resolved"
  /\ ps.outcome.st = "resolved"
  /\ ps.unprepared = 1

\* C24: when execute fails with e, the call rejects with e, and unprepare
\* has been invoked by then.
C24_ExecuteErrorIdentity ==
  \A e \in ExecuteErrors :
    (PrepareSucceeded /\ QuerySettled /\ ps.outcome = Rejected(e))
      => result[QueryCall] = Rejected(e) /\ ps.unprepared >= 1

\* The type declared for the one parameter of the call.
TheType == ps.types[1]

\* C25: for a descriptor with a type, the declared type is Int for
\* 'integer', Decimal(maxLength, decimals) for 'number', Date for 'date',
\* DateTime2 for 'datetime' with the timezone 'ignore' and DateTimeOffset
\* for 'datetime' with any other or none, NVarChar(maxLength) for 'string'
\* with a maxLength and the default NVarChar for 'string' without; the
\* value the descriptor holds has no part in it.
C25_TypeTable ==
  LET d == TheParam
  IN (BoundOne /\ d.js = "object")
       => /\ d.type = "integer" => TheType = mssqlInt
          /\ d.type = "number" => TheType = mssqlDecimal(d.maxLength, d.decimals)
          /\ d.type = "date" => TheType = mssqlDate
          /\ (d.type = "datetime" /\ d.timezone = "ignore") => TheType = mssqlDateTime2
          /\ (d.type = "datetime" /\ d.timezone # "ignore") => TheType = mssqlDateTimeOffset
          /\ (d.type = "string" /\ d.maxLength # 0) => TheType = mssqlNVarCharOf(d.maxLength)
          /\ (d.type = "string" /\ d.maxLength = 0) => TheType = mssqlNVarChar

\* A 'datetime' that ignores the timezone, holding a string, is declared
\* DateTime2 and executed.
C25_Witness ==
  /\ BoundOne /\ pc[QueryCall] = "executing"
  /\ TheParam.js = "object" /\ TheParam.type = "datetime" /\ TheParam.timezone = "ignore"
  /\ TheParam.value = Str("2014-12-31")
  /\ ps.types = <<mssqlDateTime2>>

\* C26: a raw Date parameter is declared DateTime2.
C26_RawDate ==
  (BoundOne /\ TheParam.js = "date") => TheType = mssqlDateTime2

\* The digits of a string form.
DigitCount(s) == Cardinality({i \in 1..Len(s) : IsDigit(charAt(s, i))})

\* The digits after the decimal point of a string form, and the exponent it
\* ends with.
FractionDigits(s) ==
  LET dot == indexOf(s, ".")
      e == indexOf(s, "e")
  IN IF dot = 0 THEN 0 ELSE (IF e = 0 THEN Len(s) ELSE e - 1) - dot

ExponentOf(s) ==
  LET e == indexOf(s, "e")
  IN IF e = 0 THEN 0 ELSE ToInt(SubSeq(s, e + 1, Len(s)))

ScaleOf(s) == IF FractionDigits(s) - ExponentOf(s) > 0 THEN FractionDigits(s) - ExponentOf(s) ELSE 0

\* C27 as the specification has it: a raw number is declared Decimal with
\* the digit count of its string form for precision and, for scale, the
\* digits after the decimal point less the exponent, or zero if that is
\* negative.
C27_PrecisionIsDigitCount ==
  (BoundOne /\ TheParam.js = "number")
    => TheType = mssqlDecimal(DigitCount(TheParam.v), ScaleOf(TheParam.v))

\* C27: a raw number is declared Decimal with the length of its string
\* form for precision, the sign, the point and the exponent counted with
\* the digits, and, for scale, the digits after the decimal point less the
\* exponent, or zero if that is negative.
C27_NumericInference ==
  (BoundOne /\ TheParam.js = "number")
    => TheType = mssqlDecimal(Len(TheParam.v), ScaleOf(TheParam.v))

\* 1.5e-7 is declared Decimal(6, 8) and executed.
C27_Witness ==
  /\ BoundOne /\ pc[QueryCall] = "executing"
  /\ TheParam = Num("1.5e-7")
  /\ ps.types = <<mssqlDecimal(6, 8)>>

\* The query() or batch() call has resolved.
CallResolved == pc[QueryCall] = "done" /\ result[QueryCall].st = "resolved"

\* What the driver resolved the call's request or execute with, and what
\* the call resolved with.
DriverAnswer == IF request.sent # <<>> THEN request.outcome.val ELSE ps.outcome.val
Returned == result[QueryCall].val

\* The array holds more than one element and they are all the same.
Duplicates(value) ==
  value.js = "array" /\ Len(value.elems) > 1
    /\ Cardinality({value.elems[k] : k \in 1..Len(value.elems)}) = 1

\* C28: the rows query(), execute() and batch() resolve with are the rows
\* of the driver, in their order and with their columns; a column that
\* holds an array of more than one element, all equal, holds the first of
\* them instead, and every other column holds what the driver gave.
C28_FoldingRule ==
  (CallResolved /\ DriverAnswer.defined)
    => LET raw == DriverAnswer.recordset
       IN /\ Len(Returned) = Len(raw)
          /\ \A i \in 1..Len(raw) :
               /\ Len(Returned[i]) = Len(raw[i])
               /\ \A j \in 1..Len(raw[i]) :
                    /\ Returned[i][j].key = raw[i][j].key
                    /\ Returned[i][j].value =
                         IF Duplicates(raw[i][j].value)
                         THEN raw[i][j].value.elems[1]
                         ELSE raw[i][j].value

\* A batch whose row has 'Duck' twice under c1 and 'Duck' and 'Corn' under
\* c2 resolves with 'Duck' under c1 and both under c2.
C28_Witness ==
  /\ CallResolved /\ op[QueryCall] = "batch"
  /\ DriverAnswer = Recordset(<<Named("c",
        <<ArrayOf(<<Str("Duck"), Str("Duck")>>), ArrayOf(<<Str("Duck"), Str("Corn")>>)>>)>>)
  /\ Returned = <<Named("c",
        <<Str("Duck"), ArrayOf(<<Str("Duck"), Str("Corn")>>)>>)>>

\* The array holds elements that differ.
Differing(value) ==
  value.js = "array" /\ Cardinality({value.elems[k] : k \in 1..Len(value.elems)}) > 1

\* C29: folding a row the call resolved with, which is a folded row, gives
\* that row again; and a column in which the driver gave differing values
\* holds them all after one fold and after two.
C29_FoldingIdempotence ==
  (CallResolved /\ DriverAnswer.defined)
    => LET raw == DriverAnswer.recordset
       IN \A i \in 1..Len(raw) :
            /\ Returned[i] = fold(raw[i])
            /\ fold(Returned[i]) = Returned[i]
            /\ \A j \in 1..Len(raw[i]) :
                 Differing(raw[i][j].value)
                   => /\ Returned[i][j].value = raw[i][j].value
                      /\ fold(Returned[i])[j].value = raw[i][j].value

\* A query without params whose one row has 'Duck' and 'Corn' under c1
\* resolves with that row as it is.
C29_Witness ==
  /\ CallResolved /\ op[QueryCall] = "query" /\ request.sent # <<>>
  /\ DriverAnswer = Recordset(<<Named("c", <<ArrayOf(<<Str("Duck"), Str("Corn")>>)>>)>>)
  /\ Returned = DriverAnswer.recordset
  /\ fold(Returned[1]) = Returned[1]

\* C30: when query(), execute() or batch() resolves, it resolves with a
\* sequence that has a row for every row of the driver's recordset, and
\* with the empty sequence when the driver gave no recordset, whether the
\* statement went out as a plain request, as a prepared statement or as a
\* batch.
C30_RowsOrEmpty ==
  CallResolved
    => IF DriverAnswer.defined
       THEN DOMAIN Returned = 1..Len(DriverAnswer.recordset)
       ELSE Returned = <<>>

\* 'CREATE TABLE' with an empty array is prepared, executed and unprepared,
\* and resolves with no rows.
C30_Witness ==
  /\ CallResolved /\ op[QueryCall] = "query"
  /\ given = [statement |-> "CREATE TABLE", form |-> "array", params |-> <<>>]
  /\ ps.outcome = Resolved(NoRecordset) /\ ps.unprepared = 1
  /\ Returned = <<>>

\* The transaction object of t exists: its begin has been issued.
Created(t) == pc[t] \notin {"idle", "connecting"}

\* The driver emits 'rollback' on the transaction of t.
RollbackEvent(t) == drv[t] = "active" /\ drv'[t] \in {"rolledback", "aborted"} /\ fired'[t]

DrvStep(t) ==
  drv'[t] # drv[t]
    => \/ drv[t] = "new" /\ drv'[t] = "active"
       \/ drv[t] = "active" /\ drv'[t] \in {"committed", "rolledback", "aborted"}

\* Where a scoped transaction stands agrees with the order of the chain.
ScopedOrder(t) ==
  /\ pc[t] = "beginning" => phys[loc[t].connection].st = "connected" /\ drv[t] = "new"
  /\ pc[t] = "working" => drv[t] \in {"active", "aborted"}
  /\ workDone[t].st # "pending" => drv[t] # "new"
  /\ nCommit[t] > 0 => workDone[t].st = "resolved"
  /\ workDone[t].st = "rejected" => nCommit[t] = 0 /\ drv[t] # "committed"

\* C33: in transaction(fn) the begin is issued on an established
\* connection, fn is invoked only once begin has resolved, commit is issued
\* only once fn has resolved and never after fn rejected, and the
\* transaction goes from not started to active and from active to
\* committed or rolled back, where it stays.
C33_ScopedOrdering ==
  [][\A t \in Txs :
       /\ Scoped(t) => ScopedOrder(t)
       /\ Scoped(t)' => ScopedOrder(t)'
       /\ DrvStep(t)]_vars

\* A transaction() that connected, began, ran fn and committed.
C33_Witness ==
  \E t \in Txs :
    /\ Scoped(t) /\ pc[t] = "done" /\ drv[t] = "committed"
    /\ workDone[t].st = "resolved" /\ nCommit[t] = 1 /\ nRollback[t] = 0
    /\ phys[loc[t].connection].st = "connected"

\* The begin of t was issued and failed.
BeginFailed(t) ==
  /\ mode[t] # "none" /\ drv[t] = "new"
  /\ pc[t] \notin {"idle", "connecting", "beginning"}
  /\ phys[loc[t].connection].st = "connected"

\* C34: when begin fails, fn is not invoked, neither commit nor rollback
\* is issued on the transaction, and the call rejects with the failure of
\* begin.
C34_NoRollbackWithoutBegin ==
  \A t \in Txs :
    BeginFailed(t)
      => /\ workDone[t] = Pending /\ nCommit[t] = 0 /\ nRollback[t] = 0
         /\ pc[t] = "done"
         /\ result[t].st = "rejected" /\ result[t].val \in BeginErrors

\* C35: unprepare is invoked at most once on the prepared statement of a
\* query(), and not at all when prepare has not succeeded.
C35_UnprepareOnce ==
  Queried
    => /\ ps.unprepared <= 1
       /\ ~PrepareSucceeded => ps.unprepared = 0

\* C38: when an array is bound, every placeholder of the statement names
\* an element of the array, $k with k a number in 1..N, and every declared
\* input is the pk of such a placeholder.
C38_IndexInRange ==
  (Bound /\ given.form = "array")
    => /\ \A token \in Placeholders(given.statement) :
            IsNumeric(IndexOf(token)) /\ Number(IndexOf(token)) \in 1..Len(given.params)
       /\ \A i \in 1..Len(input) :
            \E k \in 1..Len(given.params) : input[i].key = "p" \o NumToStr(k)

\* C39: the type declared for a raw number is a Decimal whose scale does
\* not exceed its precision.
C39_ScaleWithinPrecision ==
  (BoundOne /\ TheParam.js = "number")
    => /\ TheType.sql = "Decimal"
       /\ TheType.args[2] <= TheType.args[1]

\* No connect() and no close() is in flight.
AllSettled == \A c \in Calls : pc[c] \in {"idle", "done"}

\* No close() has rejected.
NoCloseFailed == \A c \in Calls : op[c] = "close" => result[c].st # "rejected"

\* Connection h is registered in some Map, bound or dropped.
Registered(h) == \E m \in MapIds : h \in HandlesOf(maps[m])

\* C40: once the connect() and close() calls have settled, no close()
\* having failed, every established connection that was registered is held
\* by the registry a later close() reads or has had close() invoked on it.
C40_NoLeakAcrossClose ==
  (AllSettled /\ CloseWasCalled /\ NoCloseFailed)
    => \A h \in Handles :
         (phys[h].st = "connected" /\ Registered(h))
           => (h \in HandlesOf(Registry) \/ phys[h].closed)

\* The pool key of a config: the tuple (host, port, database, user).
PoolKey(config) == <<config.server, config.port, config.database, config.user>>

\* The calls that constructed connection h.
Makers(h) ==
  {d \in Calls : loc[d].connection = h /\ loc[d].path \in {"create", "replace"}}

\* C36: a connect() returns or closes only a connection that was
\* constructed for a config with the same (host, port, database, user) as
\* its own.
C36_PoolKeyInjective ==
  [][\A c \in Calls : \A h \in Handles :
       (EntersConnect(c)
          /\ \/ loc'[c].path = "reuse" /\ loc'[c].connection = h
             \/ ~phys[h].closed /\ phys'[h].closed)
         => \A d \in Makers(h) : PoolKey(loc[d].config) = PoolKey(loc'[c].config)]_vars

\* Transaction t was asked for in an isolation level mssql does not have.
Unrecognised(t) == mode[t] # "none" /\ isolationLevel[t].name \notin IsolationLevels

\* C31: a transaction() or beginTransaction() given an isolation level
\* name that is not recognised never has an active transaction, never has
\* its work invoked and never hands out a handle; once settled it has
\* rejected.
C31_UnknownIsolationRejected ==
  \A t \in Txs :
    Unrecognised(t)
      => /\ drv[t] = "new"
         /\ workDone[t] = Pending
         /\ ~HandleOut(t)
         /\ pc[t] = "done" => result[t].st = "rejected"

\* The call on QueryCall was given a transaction in its options.
OnTransaction == op[QueryCall] # "none" /\ options.transaction # NoTx

\* The step is one of the call on QueryCall.
QueryStep == <<pc[QueryCall], ps, request>>' # <<pc[QueryCall], ps, request>>

\* C37: a query(), execute() or batch() given a transaction in its options
\* constructs its request or prepared statement on that transaction and
\* never calls connect(); none of its steps changes the registry or the
\* connections, and none issues a commit or a rollback on the transaction
\* or changes what the transaction is, however the statement fares.
C37_OnTransactionHandle ==
  [][(OnTransaction' /\ QueryStep)
       => /\ UNCHANGED <<connVars, txVars>>
          /\ loc'[QueryCall] = NoLoc
          /\ ps'.prepared # <<>> => ps'.connection = TransactionObj(options'.transaction)
          /\ request'.sent # <<>> =>
               request'.sent[1].connection = TransactionObj(options'.transaction)]_vars

\* A query() with a parameter on the handle of a beginTransaction() has
\* failed in execute and rejected: the transaction is active, nothing was
\* committed or rolled back, and the one connection is the transaction's.
C37_Witness ==
  \E t \in Txs :
    /\ Step(t) /\ pc[t] = "ready" /\ drv[t] = "active"
    /\ op[QueryCall] = "query" /\ options.transaction = t
    /\ ps.connection = TransactionObj(t) /\ ps.unprepared = 1
    /\ pc[QueryCall] = "done" /\ result[QueryCall] = Rejected("eExecute")
    /\ nCommit[t] = 0 /\ nRollback[t] = 0
    /\ nHandles = 1 /\ loc[QueryCall] = NoLoc

====
